---- MODULE Spec2Model ----
(***************************************************************************)
(* Forgessa: SSA construction (dominators, dominance frontier, phi        *)
(* placement and renaming), constant propagation, SSA destruction,         *)
(* natural loops and pre-header insertion, as state machines over small    *)
(* three-address functions.                                                *)
(*                                                                         *)
(* Block indices are 0-based as in the source; a block list is a TLA+      *)
(* sequence, so block i is blocks[i + 1].                                  *)
(***************************************************************************)
EXTENDS Integers, Sequences, FiniteSets, TLC

VARIABLES
    pc,        \* position of the driver (cli.rs Cli::run) or of the analysis under test
    input,     \* the Functions handed over by the loader: [functions, entry_function]
    ssa,       \* the pipeline variable `ssa` of Cli::run: [functions, entry_function]
    params,    \* the parameter names returned by PhiForge::run, one list per function
    err,       \* the panic that ended the run ("" while none)
    analysis,  \* results of the analyses: [domtree, imm_doms, dom_frontier, cfg,
               \* loops, phi_cells], and the insert_idx BlockInserter::run was given
    cps,       \* the ConstProp of every ConstProp::run_func when it returned
    locals,    \* the locals returned by SSATo3Addr::run, one list per function
    phi_vars,  \* argument of check_vars_in_phi
    phi_res    \* result of check_vars_in_phi

vars == <<pc, input, ssa, params, err, analysis, cps, locals, phi_vars, phi_res>>

(***************************************************************************)
(* Bounds of the model.                                                    *)
(***************************************************************************)
MaxCfgBlocks == 4       \* blocks of a function in the dominator analyses
MaxBlocks == 3          \* blocks of a function in the SSA pipeline
MaxPhiVars == 4         \* length of a phi argument list given to check_vars_in_phi

(***************************************************************************)
(* Small helpers.                                                          *)
(***************************************************************************)
Min(S) == CHOOSE x \in S : \A y \in S : x <= y

Max2(a, b) == IF a >= b THEN a ELSE b

Range(s) == {s[i] : i \in 1..Len(s)}

RECURSIVE Concat(_)
Concat(ss) == IF ss = <<>> THEN <<>> ELSE Head(ss) \o Concat(Tail(ss))

\* Option<usize>::None
None == -1

\* collect() of an index map into a Vec: the sequence with the same elements
Vec(s) == s \o <<>>

\* collect() of a key map into a BTreeMap: the function with the same values
MapOf(f) == f @@ <<>>

(***************************************************************************)
(* Operands (depile basic Operand wrapped in SSAOpd) and instructions.     *)
(* Every operand is a record of one shape: tag, name, integer.             *)
(***************************************************************************)
Const(i) == [t |-> "Const", n |-> "", v |-> i]

Var(name, off) == [t |-> "Var", n |-> name, v |-> off]

Register(i) == [t |-> "Register", n |-> "", v |-> i]

Subscribed(name, s) == [t |-> "Subscribed", n |-> name, v |-> s]

NOpd == [t |-> "NOpd", n |-> "", v |-> 0]

\* Every instruction is a record of one shape:
\*   k kind, m branch method, a/b operands, d destination block,
\*   vars/blocks the parallel sequences of a Phi (b is its dest).
Ins(k, m, a, b, d) == [k |-> k, m |-> m, a |-> a, b |-> b, d |-> d,
                       vars |-> <<>>, blocks |-> <<>>]

Binary(lhs, rhs) == Ins("Binary", "", lhs, rhs, 0)

Unary(opd) == Ins("Unary", "", opd, NOpd, 0)

Branch(dest) == Ins("Branch", "Unconditional", NOpd, NOpd, dest)

BranchIf(opd, dest) == Ins("Branch", "If", opd, NOpd, dest)

BranchUnless(opd, dest) == Ins("Branch", "Unless", opd, NOpd, dest)

Load(opd) == Ins("Load", "", opd, NOpd, 0)

Store(data, address) == Ins("Store", "", data, address, 0)

\* Move {source, dest}: a is the source, b the dest
Move(source, dest) == Ins("Move", "", source, dest, 0)

Read == Ins("Read", "", NOpd, NOpd, 0)

Write(opd) == Ins("Write", "", opd, NOpd, 0)

WriteLn == Ins("WriteLn", "", NOpd, NOpd, 0)

PushParam(opd) == Ins("PushParam", "", opd, NOpd, 0)

Call(dest) == Ins("Call", "", NOpd, NOpd, dest)

Nop == Ins("Nop", "", NOpd, NOpd, 0)

\* Marker(Ret): leaves the function
Ret == Ins("Ret", "", NOpd, NOpd, 0)

\* Extra(Phi {vars, blocks, dest})
Phi(vs, bs, dest) == [k |-> "Phi", m |-> "", a |-> NOpd, b |-> dest, d |-> 0,
                      vars |-> vs, blocks |-> bs]

Block(first_index, instrs) == [first_index |-> first_index, instructions |-> instrs]

Function(pcount, lcount, entry, blocks) ==
    [parameter_count |-> pcount, local_var_count |-> lcount,
     entry_block |-> entry, blocks |-> blocks]

NBlocks(func) == Len(func.blocks)

BlockIdx(func) == 0..(NBlocks(func) - 1)

\* func.blocks[i]
Blk(func, i) == func.blocks[i + 1]

(***************************************************************************)
(* Control flow graph.                                                     *)
(***************************************************************************)
\* depile successor_blocks_impl, as section 4.1 of the design describes it:
\* the successors of block i by the branching behaviour of its last instruction
SuccessorBlocks(blocks, i) ==
    LET instrs == blocks[i + 1].instructions
        last == instrs[Len(instrs)]
    IN  IF instrs = <<>> THEN {i + 1}
        ELSE IF last.k = "Branch" /\ last.m = "Unconditional" THEN {last.d}
        ELSE IF last.k = "Branch" THEN {last.d, i + 1}
        ELSE IF last.k = "Ret" THEN {}
        ELSE {i + 1}

\* SimpleCfg::from
SimpleCfgFrom(entry, blocks) ==
    [entry |-> entry,
     edges |-> [i \in 0..(Len(blocks) - 1) |-> SuccessorBlocks(blocks, i)]]

\* SimpleCfg::get_succs
GetSuccs(cfg, block_idx) == cfg.edges[block_idx]

\* SimpleCfg::get_prevs
GetPrevs(cfg, block_idx) == {b \in DOMAIN cfg.edges : block_idx \in cfg.edges[b]}

\* dom_frontier::scfg::to_simple_cfg
ToSimpleCfg(entry, blocks) ==
    [entry |-> entry,
     edges |-> [i \in 0..(Len(blocks) - 1) |->
                  {s \in SuccessorBlocks(blocks, i) : ~(s >= Len(blocks))}]]

(***************************************************************************)
(* Dominator analysis.                                                     *)
(***************************************************************************)
\* DomAnalysis::complete, used as JoinSemiLattice::bottom
Bottom(size) == 0..(size - 1)

\* ForwardAnalysis::v_entry
VEntry == {}

\* JoinSemiLattice::join_assign: removes from self what other lacks
JoinAssign(self, other) == {x \in self : x \in other}

\* ForwardAnalysis::transfer_function: the new value of output
TransferFunctionBug(block_idx, in, output) == JoinAssign(output, in)

TransferFunction(block_idx, in, output) == JoinAssign(output, in \cup {block_idx})

RECURSIVE JoinAll(_, _)
JoinAll(acc, sets) ==
    IF sets = {} THEN acc
    ELSE LET s == CHOOSE s \in sets : TRUE
         IN  JoinAll(JoinAssign(acc, s), sets \ {s})

\* depile ForwardAnalysis::run_forward, as section 4.2 of the design describes it:
\* the in-set of the entry is v_entry, the in-set of any other block the join of
\* its predecessors' out-sets (bottom when it has none)
InSet(cfg, n, out, b) ==
    IF b = cfg.entry THEN VEntry
    ELSE JoinAll(Bottom(n), {out[p] : p \in GetPrevs(cfg, b)})

RECURSIVE RunForward(_, _, _)
RunForward(cfg, n, out) ==
    LET next == [b \in 0..(n - 1) |-> TransferFunction(b, InSet(cfg, n, out, b), out[b])]
    IN  IF next = out THEN out ELSE RunForward(cfg, n, next)

\* compute_domtree: block -> set of its dominators
ComputeDomtree(func) ==
    LET n == NBlocks(func)
        cfg == SimpleCfgFrom(func.entry_block, func.blocks)
    IN  RunForward(cfg, n, [b \in 0..(n - 1) |-> Bottom(n)])

\* dominate_nodes
DominateNodes(domtree, block_idx) == {i \in DOMAIN domtree : block_idx \in domtree[i]}

\* dominate: x dom y
Dominate(domtree, x, y) == x \in domtree[y]

\* root_of_domtree (None when the search panics)
RootOfDomtree(domtree) ==
    LET roots == {i \in DOMAIN domtree : Cardinality(domtree[i]) = 1}
    IN  IF roots = {} THEN None ELSE Min(roots)

\* get_idom: the first block whose dominators, with block_idx added, are those of block_idx
GetIdomBug(block_idx, domtree) ==
    LET doms == domtree[block_idx]
        found == {i \in DOMAIN domtree : domtree[i] \cup {block_idx} = doms}
    IN  IF found = {} THEN None ELSE Min(found)

GetIdom(block_idx, domtree) ==
    LET doms == domtree[block_idx]
        found == {i \in DOMAIN domtree :
                    /\ domtree[i] \cup {block_idx} = doms
                    /\ block_idx \notin domtree[i]}
    IN  IF found = {} THEN None ELSE Min(found)

\* compute_idom
ComputeIdom(domtree) == [i \in DOMAIN domtree |-> GetIdom(i, domtree)]

\* imm_dominators
ImmDominators(imm_doms, block_idx) == imm_doms[block_idx]

(***************************************************************************)
(* Dominance frontier.  The memo table dfs is [done, val]: the keys        *)
(* inserted so far and their sets.  df recurses before it inserts its      *)
(* own key, so a block met again while its own call is still active        *)
(* recurses without end: the run dies of stack exhaustion (diverge).       *)
(***************************************************************************)
EmptyDfs(n) ==
    [done |-> {}, val |-> MapOf([b \in 0..(n - 1) |-> {}]), diverge |-> FALSE, panic |-> FALSE]

\* the filter of the Up part of df: the nodes of DF(child) kept for block_idx
UpKeep(domtree, block_idx, nodes) ==
    {node \in nodes : ~Dominate(domtree, block_idx, node) \/ block_idx = node}

\* the Local part of df
DfLocal(imm_doms, cfg, block_idx) ==
    {succ \in cfg.edges[block_idx] : ~(ImmDominators(imm_doms, succ) = block_idx)}

RECURSIVE Df(_, _, _, _, _, _), DfUp(_, _, _, _, _, _, _, _)
\* df: returns the memo table after the call
Df(block_idx, domtree, imm_doms, cfg, dfs, active) ==
    IF dfs.diverge \/ block_idx \in dfs.done THEN dfs
    ELSE IF block_idx \in active THEN [dfs EXCEPT !.diverge = TRUE]
    ELSE LET children == DominateNodes(domtree, block_idx) \ {block_idx}
             up == DfUp(block_idx, children, domtree, imm_doms, cfg, dfs,
                        active \cup {block_idx}, DfLocal(imm_doms, cfg, block_idx))
         IN  IF up.dfs.diverge THEN up.dfs
             ELSE [up.dfs EXCEPT !.done = @ \cup {block_idx}, !.val[block_idx] = up.res]

\* the loop over dominate_nodes(domtree, block_idx) in df, in ascending order
DfUp(block_idx, children, domtree, imm_doms, cfg, dfs, active, res) ==
    IF children = {} \/ dfs.diverge THEN [dfs |-> dfs, res |-> res]
    ELSE LET child == Min(children)
             dfs2 == Df(child, domtree, imm_doms, cfg, dfs, active)
         IN  DfUp(block_idx, children \ {child}, domtree, imm_doms, cfg, dfs2, active,
                  res \cup UpKeep(domtree, block_idx, dfs2.val[child]))

\* compute_df: [done, val, diverge]; done is the key set of the returned map
ComputeDf(domtree, cfg) ==
    LET imm_doms == ComputeIdom(domtree)
        root == RootOfDomtree(domtree)
        empty == EmptyDfs(Cardinality(DOMAIN domtree))
    IN  IF root = None THEN [empty EXCEPT !.panic = TRUE]
        ELSE Df(root, domtree, imm_doms, cfg, empty, {})

\* compute_dom_frontier
ComputeDomFrontier(func) ==
    ComputeDf(ComputeDomtree(func), ToSimpleCfg(func.entry_block, func.blocks))

(***************************************************************************)
(* Phi placement (PhiForge::new, infer_phi).                               *)
(***************************************************************************)
\* the variable names of the model in the order of String, which is the order
\* in which a BTreeMap<String, _> is walked
VarOrder == <<"<unknown>", "p", "x", "y">>

SortVars(S) == SelectSeq(VarOrder, LAMBDA v : v \in S)

\* HasVariableOperand::is_var for an operand before renaming
IsVar(opd) == opd.t = "Var"

\* find_defs: the variables a block assigns by a Move
FindDefs(block) ==
    {block.instructions[j].b.n : j \in {j \in 1..Len(block.instructions) :
        block.instructions[j].k = "Move" /\ IsVar(block.instructions[j].b)}}

\* depile HasOperand::get_operands: the operands of an instruction, in order
GetOperands(instr) ==
    IF instr.k \in {"Binary", "Store", "Move"} THEN <<instr.a, instr.b>>
    ELSE IF instr.k \in {"Unary", "Load", "Write", "PushParam"} THEN <<instr.a>>
    ELSE IF instr.k = "Branch" /\ instr.m # "Unconditional" THEN <<instr.a>>
    ELSE <<>>

\* every operand of a function, in block and instruction order
FuncOperands(func) ==
    Concat([i \in 1..Len(func.blocks) |->
              Concat([j \in 1..Len(func.blocks[i].instructions) |->
                        GetOperands(func.blocks[i].instructions[j])])])

\* scan_parameters: the name of slot x / 8 - 2 is that of the last Var(name, x), x > 0
ScanParameters(func) ==
    LET opds == FuncOperands(func)
        hits(slot) == {k \in 1..Len(opds) :
                         opds[k].t = "Var" /\ opds[k].v > 0 /\ (opds[k].v \div 8) - 2 = slot}
    IN  Vec([slot1 \in 1..func.parameter_count |->
            IF hits(slot1 - 1) = {} THEN "<unknown>"
            ELSE opds[CHOOSE k \in hits(slot1 - 1) : \A k2 \in hits(slot1 - 1) : k2 <= k].n])

\* PhiForge::new.  compute_df_cfg is compute_df on the SimpleCfg of cfg.rs.
NewForge(func) ==
    LET cfg == SimpleCfgFrom(func.entry_block, func.blocks)
        domtree == ComputeDomtree(func)
    IN  [params |-> ScanParameters(func),
         cfg |-> cfg,
         domtree |-> domtree,
         imm_doms |-> ComputeIdom(domtree),
         dom_frontier |-> ComputeDf(domtree, cfg),
         phi_cells |-> MapOf([i \in BlockIdx(func) |-> <<>>])]

\* phi_cells is block -> (var -> origins): PhiCell.var is the key
RECURSIVE InferDfLoopBug(_, _, _, _, _)
InferDfLoopBug(var, b, todo, cells, work) ==
    IF todo = {} THEN [cells |-> cells, work |-> work]
    ELSE LET df == Min(todo)
             fresh == var \notin DOMAIN cells[df]
             phis == IF fresh THEN cells[df] @@ (var :> {}) ELSE cells[df]
             cells2 == [cells EXCEPT ![df] = [phis EXCEPT ![var] = @ \cup {b}]]
         IN  InferDfLoopBug(var, b, todo \ {df}, cells2, work)

\* the loop `for df in dfs.get(&b)` of infer_phi: [cells, work]
RECURSIVE InferDfLoop(_, _, _, _, _)
InferDfLoop(var, b, todo, cells, work) ==
    IF todo = {} THEN [cells |-> cells, work |-> work]
    ELSE LET df == Min(todo)
             fresh == var \notin DOMAIN cells[df]
             phis == IF fresh THEN cells[df] @@ (var :> {}) ELSE cells[df]
             cells2 == [cells EXCEPT ![df] = [phis EXCEPT ![var] = @ \cup {b}]]
         IN  InferDfLoop(var, b, todo \ {df}, cells2,
                         IF fresh THEN Append(work, df) ELSE work)

\* the loop `while !blocks.is_empty()` of infer_phi: pops the last block
RECURSIVE InferWorkLoop(_, _, _, _)
InferWorkLoop(var, work, dfs, cells) ==
    IF work = <<>> THEN cells
    ELSE LET b == work[Len(work)]
             r == InferDfLoop(var, b, dfs[b], cells, SubSeq(work, 1, Len(work) - 1))
         IN  InferWorkLoop(var, r.work, dfs, r.cells)

RECURSIVE InferVarsLoop(_, _, _, _)
InferVarsLoop(todo, def_sites, dfs, cells) ==
    IF todo = <<>> THEN cells
    ELSE InferVarsLoop(Tail(todo), def_sites, dfs,
                       InferWorkLoop(Head(todo), def_sites[Head(todo)], dfs, cells))

\* infer_phi: the phi cells of every block
InferPhi(func, dfs) ==
    LET defs == [i \in BlockIdx(func) |-> FindDefs(Blk(func, i))]
        names == UNION {defs[i] : i \in BlockIdx(func)}
        def_sites == [var \in names |->
                        SelectSeq([k \in 1..NBlocks(func) |-> k - 1],
                                  LAMBDA i : var \in defs[i])]
    IN  InferVarsLoop(SortVars(names), def_sites, dfs,
                      MapOf([i \in BlockIdx(func) |-> <<>>]))

\* top_down_domtree: the children of every block in the dominator tree
TopDownDomtree(domtree, imm_doms) ==
    [i \in 0..(Cardinality(DOMAIN domtree) - 1) |->
        {c \in DOMAIN imm_doms : imm_doms[c] # None /\ imm_doms[c] = i}]

(***************************************************************************)
(* Index panning.                                                          *)
(***************************************************************************)
\* Pannable for Operand / SSAOpd: f is the amount added to a register index
PanOpd(opd, delta) == IF opd.t = "Register" THEN Register(opd.v + delta) ELSE opd

\* Pannable for Instr, Branching, SSAInterProc and Phi (blocks and dest are kept)
PanInstr(instr, delta) ==
    [instr EXCEPT !.a = PanOpd(instr.a, delta),
                  !.b = IF instr.k = "Phi" THEN instr.b ELSE PanOpd(instr.b, delta),
                  !.vars = Vec([k \in 1..Len(instr.vars) |-> PanOpd(instr.vars[k], delta)])]

\* Pannable for Block with f = x + delta
PanBlock(block, delta) ==
    Block(block.first_index + delta,
          Vec([j \in 1..Len(block.instructions) |->
                  PanInstr(block.instructions[j], delta)]))

\* PannableBlock::panning_forward_fill
PanningForwardFill(block, offset) ==
    Block(block.first_index,
          [j \in 1..offset |-> Nop] \o
          [j \in 1..Len(block.instructions) |-> PanInstr(block.instructions[j], offset)])

\* the loop of panning_function: [blocks, index]
RECURSIVE PanningLoop(_, _, _)
PanningLoop(todo, index, done) ==
    IF todo = <<>> THEN [blocks |-> done, index |-> index]
    ELSE LET block == Head(todo)
         IN  PanningLoop(Tail(todo), index + Len(block.instructions),
                         Append(done, PanBlock(block, index - block.first_index)))

\* panning_function: [func, index]
PanningFunction(func, first_index) ==
    LET r == PanningLoop(func.blocks, first_index, <<>>)
    IN  [func |-> [func EXCEPT !.blocks = r.blocks], index |-> r.index]

(***************************************************************************)
(* Phi realization (place_phi_placeholder, place_phi).                     *)
(***************************************************************************)
RECURSIVE PlaceholderLoop(_, _, _, _, _)
PlaceholderLoop(todo, i, id, phi_cells, done) ==
    IF todo = <<>> THEN done
    ELSE LET b == Head(todo)
             offset == id - b.first_index
             block == PanningForwardFill(PanBlock(b, offset),
                                         Cardinality(DOMAIN phi_cells[i]))
         IN  PlaceholderLoop(Tail(todo), i + 1, id + Len(block.instructions),
                             phi_cells, Append(done, block))

\* place_phi_placeholder
PlacePhiPlaceholder(func, instr_idx, phi_cells) ==
    [func EXCEPT !.local_var_count = 0,
                 !.blocks = PlaceholderLoop(func.blocks, 0, instr_idx, phi_cells, <<>>)]

\* place_phi: the first phi_cells[i].len() slots of block i become empty phis
PlacePhi(func, phi_cells) ==
    [func EXCEPT !.blocks =
        Vec([i1 \in 1..Len(func.blocks) |->
            [func.blocks[i1] EXCEPT !.instructions =
                Vec([j \in 1..Len(func.blocks[i1].instructions) |->
                    IF j <= Cardinality(DOMAIN phi_cells[i1 - 1])
                    THEN Phi(<<>>, <<>>, NOpd)
                    ELSE func.blocks[i1].instructions[j]])]])]

(***************************************************************************)
(* Renaming (PhiForge::rename_phi, RenameStack, Renameable).               *)
(* A RenameStack is its var_stacks: var -> [counter, stack]; the domain    *)
(* holds the variables a cell was created for.  The walk threads           *)
(* [func, rs, panic]: panic holds the message of the panic that ended it.  *)
(***************************************************************************)
\* RenameStack::new
NewRenameStack == <<>>

\* RenameStack::var_stack_mut: creates the cell of var when it has none
VarStackMut(rs, var) ==
    IF var \in DOMAIN rs THEN rs ELSE rs @@ (var :> [counter |-> 0, stack |-> <<>>])

\* RenameStack::try_get: [rs, idx], idx the last subscript pushed or -1
TryGet(rs, var) ==
    LET rs1 == VarStackMut(rs, var)
        stack == rs1[var].stack
    IN  [rs |-> rs1, idx |-> IF stack = <<>> THEN -1 ELSE stack[Len(stack)]]

\* RenameStack::request: [rs, id]
Request(rs, var) ==
    LET rs1 == VarStackMut(rs, var)
    IN  [rs |-> [rs1 EXCEPT ![var].counter = @ + 1], id |-> rs1[var].counter]

\* RenameStack::push_var
PushVar(rs, var, var_idx) ==
    LET rs1 == VarStackMut(rs, var)
    IN  [rs1 EXCEPT ![var].stack = Append(@, var_idx)]

\* RenameStack::request_push: [rs, id]
RequestPush(rs, var) ==
    LET r == Request(rs, var)
    IN  [rs |-> PushVar(r.rs, var, r.id), id |-> r.id]

\* Renameable for SSAOpd, with RenameStack::get: [opd, rs, panic]
RenameOpd(opd, rs) ==
    IF opd.t = "Var"
    THEN LET r == TryGet(rs, opd.n)
         IN  IF r.idx = -1
             THEN [opd |-> opd, rs |-> r.rs, panic |-> "rename: unwrap on an empty stack"]
             ELSE [opd |-> Subscribed(opd.n, r.idx), rs |-> r.rs, panic |-> ""]
    ELSE [opd |-> opd, rs |-> rs, panic |-> ""]

\* the second operand of a Binary or Store, ra the renaming of the first
RenameSecond(instr, ra, rb) ==
    [instr |-> [instr EXCEPT !.a = ra.opd, !.b = rb.opd], rs |-> rb.rs, panic |-> rb.panic]

\* the dest of a Move, ra the renaming of its source, r the request_push
RenameDest(instr, ra, r) ==
    [instr |-> [instr EXCEPT !.a = ra.opd, !.b = Subscribed(instr.b.n, r.id)],
     rs |-> r.rs, panic |-> ""]

\* an instruction once its first operand is renamed as ra
RenameInstrThen(instr, rs, ra) ==
    IF ra.panic # "" THEN [instr |-> instr, rs |-> ra.rs, panic |-> ra.panic]
    ELSE IF instr.k \in {"Binary", "Store"}
    THEN RenameSecond(instr, ra, RenameOpd(instr.b, ra.rs))
    ELSE IF \/ instr.k \in {"Unary", "Load", "Write", "PushParam"}
            \/ instr.k = "Branch" /\ instr.m # "Unconditional"
    THEN [instr |-> [instr EXCEPT !.a = ra.opd], rs |-> ra.rs, panic |-> ""]
    ELSE IF instr.k = "Move"
    THEN IF instr.b.t = "Var"
         THEN RenameDest(instr, ra, RequestPush(ra.rs, instr.b.n))
         ELSE [instr |-> [instr EXCEPT !.a = ra.opd], rs |-> ra.rs, panic |-> ""]
    ELSE [instr |-> instr, rs |-> rs, panic |-> ""]

\* Renameable for SSAInstr, BranchKind and SSAInterProc: [instr, rs, panic]
RenameInstr(instr, rs) == RenameInstrThen(instr, rs, RenameOpd(instr.a, rs))

\* push_phi_param: [instr, panic]
PushPhiParam(instr, var, var_idx, block_idx) ==
    IF instr.k = "Phi"
    THEN [instr |-> [instr EXCEPT !.vars = Append(@, Subscribed(var, var_idx)),
                                  !.blocks = Append(@, block_idx)],
          panic |-> ""]
    ELSE [instr |-> instr, panic |-> "Not phi instruction."]

\* step 1 of visit: a fresh name for the dest of every phi of the block
RECURSIVE VisitStep1(_, _, _, _)
VisitStep1Then(block_idx, todo, j, st, r) ==
    IF Blk(st.func, block_idx).instructions[j].k # "Phi"
    THEN [st EXCEPT !.rs = r.rs, !.panic = "Error"]
    ELSE VisitStep1(block_idx, Tail(todo), j + 1,
            [st EXCEPT !.rs = r.rs,
                       !.func.blocks[block_idx + 1].instructions[j].b =
                           Subscribed(Head(todo), r.id)])

VisitStep1(block_idx, todo, j, st) ==
    IF todo = <<>> \/ st.panic # "" THEN st
    ELSE VisitStep1Then(block_idx, todo, j, st, RequestPush(st.rs, Head(todo)))

\* step 2 of visit: rename every instruction of the block, in order
RECURSIVE VisitStep2(_, _, _)
VisitStep2Then(block_idx, j, st, r) ==
    VisitStep2(block_idx, j + 1,
        [st EXCEPT !.rs = r.rs, !.panic = r.panic,
                   !.func.blocks[block_idx + 1].instructions[j] = r.instr])

VisitStep2(block_idx, j, st) ==
    IF j > Len(Blk(st.func, block_idx).instructions) \/ st.panic # "" THEN st
    ELSE VisitStep2Then(block_idx, j, st,
                        RenameInstr(Blk(st.func, block_idx).instructions[j], st.rs))

\* step 3 of visit, inner loop: one argument for every phi of the successor
RECURSIVE VisitStep3Phis(_, _, _, _, _)
VisitStep3Push(block_idx, succ, todo, j, st, g, r) ==
    VisitStep3Phis(block_idx, succ, Tail(todo), j + 1,
        [st EXCEPT !.rs = g.rs, !.panic = r.panic,
                   !.func.blocks[succ + 1].instructions[j] = r.instr])

VisitStep3Then(block_idx, succ, todo, j, st, g) ==
    VisitStep3Push(block_idx, succ, todo, j, st, g,
        PushPhiParam(Blk(st.func, succ).instructions[j], Head(todo), g.idx, block_idx))

VisitStep3Phis(block_idx, succ, todo, j, st) ==
    IF todo = <<>> \/ st.panic # "" THEN st
    ELSE VisitStep3Then(block_idx, succ, todo, j, st, TryGet(st.rs, Head(todo)))

\* step 3 of visit: the successors of the block, in ascending order
RECURSIVE VisitStep3(_, _, _, _)
VisitStep3(forge, block_idx, todo, st) ==
    IF todo = {} \/ st.panic # "" THEN st
    ELSE LET succ == Min(todo)
         IN  IF succ >= NBlocks(st.func)
             THEN [st EXCEPT !.panic = "rename: unwrap on a missing block"]
             ELSE VisitStep3(forge, block_idx, todo \ {succ},
                    VisitStep3Phis(block_idx, succ,
                                   SortVars(DOMAIN forge.phi_cells[succ]), 1, st))

\* the counters a parent takes back from the clone a child was visited with:
\* those of the variables the parent has a cell for
TakeCounters(parent, child) ==
    MapOf([var \in DOMAIN parent |-> [parent[var] EXCEPT !.counter = child[var].counter]])

\* visit, and its step 4: the children in the dominator tree, in ascending order
RECURSIVE Visit(_, _, _, _), VisitStep4(_, _, _, _)
VisitStep4Then(forge, todo, td_tree, st, sub) ==
    IF sub.panic # "" THEN sub
    ELSE VisitStep4(forge, todo \ {Min(todo)}, td_tree,
            [func |-> sub.func, rs |-> TakeCounters(st.rs, sub.rs), panic |-> ""])

Visit(forge, block_idx, td_tree, st) ==
    VisitStep4(forge, td_tree[block_idx], td_tree,
        VisitStep3(forge, block_idx, GetSuccs(forge.cfg, block_idx),
            VisitStep2(block_idx, 1,
                VisitStep1(block_idx, SortVars(DOMAIN forge.phi_cells[block_idx]), 1,
                           st))))

VisitStep4(forge, todo, td_tree, st) ==
    IF todo = {} \/ st.panic # "" THEN st
    ELSE VisitStep4Then(forge, todo, td_tree, st, Visit(forge, Min(todo), td_tree, st))

\* the loop `for param in &self.params` of rename_phi
RECURSIVE SeedParams(_, _)
SeedParams(todo, rs) ==
    IF todo = <<>> THEN rs ELSE SeedParams(Tail(todo), RequestPush(rs, Head(todo)).rs)

\* rename_phi: [func, rs, panic]
RenamePhi(forge, func) ==
    LET root == RootOfDomtree(forge.domtree)
        st == [func |-> func, rs |-> SeedParams(forge.params, NewRenameStack),
               panic |-> ""]
    IN  IF root = None THEN [st EXCEPT !.panic = "Root not found"]
        ELSE Visit(forge, root, TopDownDomtree(forge.domtree, forge.imm_doms), st)

\* run_func from `forge.rename_phi(&mut func)` on: r is what rename_phi returns
RunFuncResult(forge0, r) == [func |-> r.func, params |-> forge0.params, panic |-> r.panic]

\* run_func from infer_phi on: phi_cells is what infer_phi has computed
RunFuncPlace(func, instr_idx, forge0, phi_cells) ==
    RunFuncResult(forge0,
        RenamePhi([forge0 EXCEPT !.phi_cells = phi_cells],
                  PlacePhi(PlacePhiPlaceholder(func, instr_idx, phi_cells), phi_cells)))

\* run_func with the forge PhiForge::new has built
RunFuncWith(func, instr_idx, forge0) ==
    IF forge0.dom_frontier.diverge
    THEN [func |-> func, params |-> forge0.params, panic |-> "df: stack overflow"]
    ELSE IF forge0.dom_frontier.panic
    THEN [func |-> func, params |-> forge0.params, panic |-> "Root not found"]
    ELSE RunFuncPlace(func, instr_idx, forge0, InferPhi(func, forge0.dom_frontier.val))

\* PhiForge::run_func: [func, params, panic]
RunFunc(func, instr_idx) == RunFuncWith(func, instr_idx, NewForge(func))

\* count_instructions of PhiForge::run
CountInstructions(func) ==
    Len(Concat([i \in 1..Len(func.blocks) |-> func.blocks[i].instructions]))

\* the loop of PhiForge::run: [functions, params, panic]
RECURSIVE PhiForgeLoop(_, _, _, _)
\* the body of the loop once run_func has returned r for the function at idx
PhiForgeLoopThen(todo, idx, res, ps, r) ==
    IF r.panic # "" THEN [functions |-> res, params |-> ps, panic |-> r.panic]
    ELSE PhiForgeLoop(Tail(todo), idx + CountInstructions(r.func),
                      Append(res, r.func), Append(ps, r.params))

PhiForgeLoopAt(todo, idx, res, ps) ==
    PhiForgeLoopThen(todo, idx, res, ps, RunFunc(Head(todo), idx))

PhiForgeLoop(todo, curr_idx, res, ps) ==
    IF todo = <<>> THEN [functions |-> res, params |-> ps, panic |-> ""]
    ELSE PhiForgeLoopAt(todo, Max2(curr_idx, Head(todo).blocks[1].first_index), res, ps)

\* PhiForge::run
PhiForgeRun(funcs) == PhiForgeLoop(funcs.functions, 0, <<>>, <<>>)

(***************************************************************************)
(* Constant propagation (ConstProp, its Substitutable, check_vars_in_phi). *)
(* A ConstProp is [count, const_elements]; const_elements is the map from  *)
(* operands to operands, held as its set of entries [key, val].            *)
(***************************************************************************)
\* ConstProp::new
NewConstProp == [count |-> 0, const_elements |-> {}]

\* the keys of a map held as its set of entries
Keys(map) == {e.key : e \in map}

\* ConstProp::constains
Constains(cp, opd) == opd \in Keys(cp.const_elements)

\* const_elements.get(opd).unwrap()
GetConst(cp, opd) == (CHOOSE e \in cp.const_elements : e.key = opd).val

\* ConstProp::check_subst with ConstProp::subst: [opd, cp, changed]
CheckSubst(cp, opd) ==
    IF Constains(cp, opd)
    THEN [opd |-> GetConst(cp, opd), cp |-> [cp EXCEPT !.count = @ + 1],
          changed |-> TRUE]
    ELSE [opd |-> opd, cp |-> cp, changed |-> FALSE]

\* ConstProp::insert
InsertConst(cp, opd, opd_const) ==
    [cp EXCEPT !.const_elements =
        {e \in @ : e.key # opd} \cup {[key |-> opd, val |-> opd_const]}]

\* as_constant(..).is_some()
AsConstant(opd) == opd.t = "Const"

\* the loop of check_vars_in_phi; curr is [some, v]
RECURSIVE CheckVarsLoop(_, _)
CheckVarsLoop(vs, curr) ==
    IF vs = <<>>
    THEN IF curr.some THEN [tag |-> "Some", opd |-> Const(curr.v)]
         ELSE [tag |-> "Panic", opd |-> NOpd]
    ELSE LET var == Head(vs)
         IN  IF var.t = "Const"
             THEN IF ~curr.some THEN CheckVarsLoop(Tail(vs), [some |-> TRUE, v |-> var.v])
                  ELSE IF curr.v = var.v THEN CheckVarsLoop(Tail(vs), curr)
                  ELSE [tag |-> "None", opd |-> NOpd]
             ELSE IF var.t = "Subscribed"
             THEN IF var.v >= 0 THEN [tag |-> "None", opd |-> NOpd]
                  ELSE CheckVarsLoop(Tail(vs), curr)
             ELSE [tag |-> "Panic", opd |-> NOpd]

\* check_vars_in_phi: Some(opd), None, or a panic (curr.unwrap(), "error phi")
CheckVarsInPhi(vs) == CheckVarsLoop(vs, [some |-> FALSE, v |-> 0])

\* the loop `for var in vars.iter_mut()` of the Phi arm: [vars, cp, changed]
RECURSIVE SubstPhiVars(_, _, _, _)
SubstPhiVarsThen(todo, done, changed, r) ==
    SubstPhiVars(Tail(todo), Append(done, r.opd), r.cp, changed \/ r.changed)

SubstPhiVars(todo, done, cp, changed) ==
    IF todo = <<>> THEN [vars |-> done, cp |-> cp, changed |-> changed]
    ELSE SubstPhiVarsThen(todo, done, changed, CheckSubst(cp, Head(todo)))

\* the Phi arm after its loop: rv the loop's result, chk that of check_vars_in_phi
SubstPhiThen(instr, rv, chk) ==
    IF chk.tag = "Panic"
    THEN [instr |-> [instr EXCEPT !.vars = rv.vars], cp |-> rv.cp,
          changed |-> rv.changed, panic |-> "check_vars_in_phi: unwrap on None"]
    ELSE IF chk.tag = "Some"
    THEN [instr |-> Nop, cp |-> InsertConst(rv.cp, instr.b, chk.opd),
          changed |-> TRUE, panic |-> ""]
    ELSE [instr |-> [instr EXCEPT !.vars = rv.vars], cp |-> rv.cp,
          changed |-> rv.changed, panic |-> ""]

SubstPhi(instr, rv) == SubstPhiThen(instr, rv, CheckVarsInPhi(rv.vars))

\* the right side of `||` in the Binary and Store arms
SubstSecond(instr, rb) ==
    [instr |-> [instr EXCEPT !.b = rb.opd], cp |-> rb.cp, changed |-> rb.changed,
     panic |-> ""]

\* the arms that start with check_subst of the first operand, ra its result
SubstInstrThen(instr, cp, ra) ==
    IF instr.k \in {"Binary", "Store"}
    THEN IF ra.changed
         THEN [instr |-> [instr EXCEPT !.a = ra.opd], cp |-> ra.cp,
               changed |-> TRUE, panic |-> ""]
         ELSE SubstSecond(instr, CheckSubst(cp, instr.b))
    ELSE IF \/ instr.k \in {"Unary", "Load", "Write", "PushParam"}
            \/ instr.k = "Branch" /\ instr.m # "Unconditional"
    THEN [instr |-> [instr EXCEPT !.a = ra.opd], cp |-> ra.cp,
          changed |-> ra.changed, panic |-> ""]
    ELSE IF instr.k = "Move"
    THEN IF AsConstant(ra.opd)
         THEN [instr |-> Nop, cp |-> InsertConst(ra.cp, instr.b, ra.opd),
               changed |-> TRUE, panic |-> ""]
         ELSE [instr |-> [instr EXCEPT !.a = ra.opd], cp |-> ra.cp,
               changed |-> ra.changed, panic |-> ""]
    ELSE [instr |-> instr, cp |-> cp, changed |-> FALSE, panic |-> ""]

\* Substitutable for IdxInstr: [instr, cp, changed, panic]
SubstInstr(instr, cp) ==
    IF instr.k = "Phi" THEN SubstPhi(instr, SubstPhiVars(instr.vars, <<>>, cp, FALSE))
    ELSE SubstInstrThen(instr, cp, CheckSubst(cp, instr.a))

\* Substitutable for SSABlock: [instrs, cp, changed, panic]
RECURSIVE SubstBlock(_, _, _, _)
SubstBlockThen(todo, done, changed, r) ==
    IF r.panic # ""
    THEN [instrs |-> done \o todo, cp |-> r.cp, changed |-> changed, panic |-> r.panic]
    ELSE SubstBlock(Tail(todo), Append(done, r.instr), r.cp, changed \/ r.changed)

SubstBlock(todo, done, cp, changed) ==
    IF todo = <<>> THEN [instrs |-> done, cp |-> cp, changed |-> changed, panic |-> ""]
    ELSE SubstBlockThen(todo, done, changed, SubstInstr(Head(todo), cp))

\* Substitutable for SSAFunction, one pass: [func, cp, changed, panic]
RECURSIVE SubstFunction(_, _, _, _)
SubstFunctionThen(func, i, changed, r) ==
    IF r.panic # ""
    THEN [func |-> func, cp |-> r.cp, changed |-> changed, panic |-> r.panic]
    ELSE SubstFunction([func EXCEPT !.blocks[i].instructions = r.instrs],
                       i + 1, r.cp, changed \/ r.changed)

\* `changed = changed || block.subst(cp)`: no block is visited after a change
SubstFunctionBug(func, i, cp, changed) ==
    IF i > Len(func.blocks) \/ changed
    THEN [func |-> func, cp |-> cp, changed |-> changed, panic |-> ""]
    ELSE SubstFunctionThen(func, i, changed,
                           SubstBlock(func.blocks[i].instructions, <<>>, cp, FALSE))

SubstFunction(func, i, cp, changed) ==
    IF i > Len(func.blocks) THEN [func |-> func, cp |-> cp, changed |-> changed, panic |-> ""]
    ELSE SubstFunctionThen(func, i, changed,
                           SubstBlock(func.blocks[i].instructions, <<>>, cp, FALSE))

\* the loop `while func.subst(&mut cp) { }`: [func, cp, passes, panic]
RECURSIVE SubstUntilUnchanged(_, _, _)
SubstUntilUnchangedThen(passes, r) ==
    IF r.panic # "" \/ ~r.changed
    THEN [func |-> r.func, cp |-> r.cp, passes |-> passes + 1, panic |-> r.panic]
    ELSE SubstUntilUnchanged(r.func, r.cp, passes + 1)

SubstUntilUnchanged(func, cp, passes) ==
    SubstUntilUnchangedThen(passes, SubstFunction(func, 1, cp, FALSE))

\* the result of run_func when its loop is left after its first pass r
FirstPassOnly(r) == [func |-> r.func, cp |-> r.cp, passes |-> 1, panic |-> r.panic]

\* run_func with `func.subst(&mut cp);` in place of its loop
ConstPropRunFuncBug(func) == FirstPassOnly(SubstFunction(func, 1, NewConstProp, FALSE))

\* ConstProp::run_func: [func, cp, passes, panic]
ConstPropRunFunc(func) == SubstUntilUnchanged(func, NewConstProp, 0)

\* the loop of ConstProp::run: [functions, cps, panic]
RECURSIVE ConstPropLoop(_, _, _)
ConstPropLoopThen(todo, done, acc, r) ==
    IF r.panic # "" THEN [functions |-> done \o todo, cps |-> acc, panic |-> r.panic]
    ELSE ConstPropLoop(Tail(todo), Append(done, r.func),
                       Append(acc, [count |-> r.cp.count,
                                    const_elements |-> r.cp.const_elements,
                                    passes |-> r.passes]))

ConstPropLoop(todo, done, acc) ==
    IF todo = <<>> THEN [functions |-> done, cps |-> acc, panic |-> ""]
    ELSE ConstPropLoopThen(todo, done, acc, ConstPropRunFunc(Head(todo)))

\* ConstProp::run
ConstPropRun(funcs) == ConstPropLoop(funcs.functions, <<>>, <<>>)

(***************************************************************************)
(* SSA destruction (SSATo3Addr and its helper).                            *)
(***************************************************************************)
\* helper::push_var_assignment: the instructions of the block afterwards
PushVarAssignment(instrs, src, dst) ==
    IF src.t = "Subscribed" /\ src.v < 0 THEN instrs
    ELSE IF instrs = <<>> THEN <<Move(src, dst)>>
    ELSE IF instrs[Len(instrs)].k = "Branch"
    THEN SubSeq(instrs, 1, Len(instrs) - 1) \o <<Move(src, dst), instrs[Len(instrs)]>>
    ELSE Append(instrs, Move(src, dst))

\* the length of the run of Phi instructions a block starts with
RECURSIVE LeadingPhis(_)
LeadingPhis(instrs) ==
    IF instrs = <<>> \/ Head(instrs).k # "Phi" THEN 0 ELSE 1 + LeadingPhis(Tail(instrs))

\* how many instructions from the top of a block remove_phi_func looks at
\* before its `_ => break`
PhiPrefix(instrs) == LeadingPhis(instrs)

\* the work list remove_phi_func collects from one block
BlockWorkList(instrs) ==
    Concat([j \in 1..PhiPrefix(instrs) |->
              [k \in 1..Len(instrs[j].vars) |->
                  [block_idx |-> instrs[j].blocks[k], src |-> instrs[j].vars[k],
                   dst |-> instrs[j].b]]])

RECURSIVE ApplyWorkList(_, _)
ApplyWorkList(func, work) ==
    IF work = <<>> THEN func
    ELSE ApplyWorkList(
            [func EXCEPT !.blocks[Head(work).block_idx + 1].instructions =
                            PushVarAssignment(@, Head(work).src, Head(work).dst)],
            Tail(work))

\* SSATo3Addr::remove_phi_func
RemovePhiFunc(func) ==
    LET work == Concat([i \in 1..Len(func.blocks) |->
                          BlockWorkList(func.blocks[i].instructions)])
        nopped == [func EXCEPT !.blocks =
                     Vec([i \in 1..Len(func.blocks) |->
                        [func.blocks[i] EXCEPT !.instructions =
                            Vec([j \in 1..Len(func.blocks[i].instructions) |->
                                IF j <= PhiPrefix(func.blocks[i].instructions)
                                THEN Nop ELSE func.blocks[i].instructions[j]])]])]
    IN  ApplyWorkList(nopped, work)

\* the position of the first x in the sequence s, counted from 0
Position(s, x) ==
    IF x \in Range(s) THEN Min({k \in 1..Len(s) : s[k] = x}) - 1 ELSE -1

LocalVarBug(opd, ls) ==
    [opd |-> Var(opd.n \o ToString(opd.v), (0 - (Len(ls) - 1)) * 8 - 8),
     locals |-> ls]

\* the Var a local is rewritten to, ls the locals with it among them
LocalVar(opd, ls) ==
    [opd |-> Var(opd.n \o ToString(opd.v), (0 - Position(ls, opd)) * 8 - 8),
     locals |-> ls]

\* helper::Substitutable for SSAOpd: [opd, locals]
SubstParamsOpd(opd, ps, ls) ==
    IF opd.t # "Subscribed" THEN [opd |-> opd, locals |-> ls]
    ELSE IF opd.n \in Range(ps) /\ opd.v = 0
    THEN [opd |-> Var(opd.n, Position(ps, opd.n) * 8 + 16), locals |-> ls]
    ELSE LocalVar(opd, IF opd \in Range(ls) THEN ls ELSE Append(ls, opd))

\* the instruction kinds whose operand a (and b) helper::Substitutable rewrites
SubstParamsKindsA ==
    {"Binary", "Unary", "Load", "Store", "Move", "Write", "PushParam"}

SubstParamsKindsBBug == {"Binary", "Store"}

SubstParamsKindsB == {"Binary", "Store", "Move"}

\* the second operand, ra the rewriting of the first
SubstParamsSecond(instr, ra, rb) ==
    [instr |-> [instr EXCEPT !.a = ra.opd, !.b = rb.opd], locals |-> rb.locals,
     panic |-> ""]

SubstParamsInstrThen(instr, ps, ra) ==
    IF instr.k \in SubstParamsKindsB
    THEN SubstParamsSecond(instr, ra, SubstParamsOpd(instr.b, ps, ra.locals))
    ELSE [instr |-> [instr EXCEPT !.a = ra.opd], locals |-> ra.locals, panic |-> ""]

\* helper::Substitutable for SSAInstr: [instr, locals, panic]
SubstParamsInstr(instr, ps, ls) ==
    IF instr.k = "Phi"
    THEN [instr |-> instr, locals |-> ls, panic |-> "Error phi node"]
    ELSE IF \/ instr.k \in SubstParamsKindsA
            \/ instr.k = "Branch" /\ instr.m # "Unconditional"
    THEN SubstParamsInstrThen(instr, ps, SubstParamsOpd(instr.a, ps, ls))
    ELSE [instr |-> instr, locals |-> ls, panic |-> ""]

\* helper::Substitutable for SSABlock: [instrs, locals, panic]
RECURSIVE SubstParamsBlock(_, _, _, _)
SubstParamsBlockThen(todo, done, ps, ls, r) ==
    IF r.panic # ""
    THEN [instrs |-> done \o todo, locals |-> ls, panic |-> r.panic]
    ELSE SubstParamsBlock(Tail(todo), Append(done, r.instr), ps, r.locals)

SubstParamsBlock(todo, done, ps, ls) ==
    IF todo = <<>> THEN [instrs |-> done, locals |-> ls, panic |-> ""]
    ELSE SubstParamsBlockThen(todo, done, ps, ls, SubstParamsInstr(Head(todo), ps, ls))

\* SSATo3Addr::rename_params: [func, locals, panic]
RECURSIVE RenameParamsLoop(_, _, _, _)
RenameParamsLoopThen(func, i, ps, ls, r) ==
    IF r.panic # "" THEN [func |-> func, locals |-> ls, panic |-> r.panic]
    ELSE RenameParamsLoop([func EXCEPT !.blocks[i].instructions = r.instrs],
                          i + 1, ps, r.locals)

RenameParamsLoop(func, i, ps, ls) ==
    IF i > Len(func.blocks)
    THEN [func |-> [func EXCEPT !.local_var_count = Len(ls)], locals |-> ls,
          panic |-> ""]
    ELSE RenameParamsLoopThen(func, i, ps, ls,
            SubstParamsBlock(func.blocks[i].instructions, <<>>, ps, ls))

RenameParams(func, ps) == RenameParamsLoop(func, 1, ps, <<>>)

\* the program-wide index SSATo3Addr::flatten starts from
FlattenBase == 3

\* SSATo3Addr::flatten
RECURSIVE Flatten(_, _, _)
\* flatten with the index starting over at every function
FlattenThenBug(todo, done, r) == Flatten(Tail(todo), FlattenBase, Append(done, r.func))

\* flatten once panning_function has returned r for the function at the head
FlattenThen(todo, done, r) == Flatten(Tail(todo), r.index, Append(done, r.func))

Flatten(todo, index, done) ==
    IF todo = <<>> THEN done
    ELSE FlattenThen(todo, done, PanningFunction(Head(todo), index))

\* the loop of SSATo3Addr::run over 0..params.len(): [functions, locals, panic]
RECURSIVE SSATo3AddrLoop(_, _, _, _, _)
SSATo3AddrLoopThen(functions, i, ps, done, ls, r) ==
    IF r.panic # "" THEN [functions |-> done, locals |-> ls, panic |-> r.panic]
    ELSE SSATo3AddrLoop(functions, i + 1, ps, Append(done, r.func), Append(ls, r.locals))

SSATo3AddrLoop(functions, i, ps, done, ls) ==
    IF i > Len(ps) THEN [functions |-> done, locals |-> ls, panic |-> ""]
    ELSE SSATo3AddrLoopThen(functions, i, ps, done, ls,
                            RenameParams(RemovePhiFunc(functions[i]), ps[i]))

SSATo3AddrThen(r) ==
    IF r.panic # "" THEN r
    ELSE [functions |-> Flatten(r.functions, FlattenBase, <<>>),
          locals |-> r.locals, panic |-> ""]

\* SSATo3Addr::run: [functions, locals, panic]
SSATo3AddrRun(funcs, ps) ==
    SSATo3AddrThen(SSATo3AddrLoop(funcs.functions, 1, ps, <<>>, <<>>))

(***************************************************************************)
(* Input functions.  The loader hands over functions whose blocks are      *)
(* non-empty, whose branches stay inside the function, whose last block    *)
(* does not fall off the end, and whose instruction indices are            *)
(* contiguous; the entry block is block 0.                                 *)
(***************************************************************************)
\* the ways block i of n can end: fall through, return, branch, conditional branch
Terminators(n, i, cond) ==
    (IF i + 1 < n THEN {<<>>} \cup {<<BranchIf(cond, d)>> : d \in 0..(n - 1)} ELSE {})
        \cup {<<Ret>>} \cup {<<Branch(d)>> : d \in 0..(n - 1)}

\* the first_index of each block of a list of instruction sequences starting at base
RECURSIVE Layout(_, _)
Layout(bodies, base) ==
    IF bodies = <<>> THEN <<>>
    ELSE <<Block(base, Head(bodies))>> \o Layout(Tail(bodies), base + Len(Head(bodies)))

\* functions of n blocks that hold nothing but their terminator
CfgBlockChoices(n, i) ==
    {IF t = <<>> THEN <<Nop>> ELSE t : t \in Terminators(n, i, Const(1))}

CfgFunctions(n) ==
    {Function(0, 0, 0, Layout(bodies, 2)) :
        bodies \in {bs \in [1..n -> UNION {CfgBlockChoices(n, i) : i \in 0..(n - 1)}] :
                      \A i \in 1..n : bs[i] \in CfgBlockChoices(n, i - 1)}}

NoFunctions == [functions |-> <<>>, entry_function |-> 0]

NoPhiRes == [tag |-> "unset", opd |-> NOpd]

NoAnalysis ==
    [domtree |-> <<>>, imm_doms |-> <<>>, dom_frontier |-> EmptyDfs(0),
     cfg |-> [entry |-> 0, edges |-> <<>>], loops |-> <<>>, phi_cells |-> <<>>,
     insert_idx |-> None, checks |-> FALSE,
     lv |-> [counter |-> 0, opt_instr |-> <<>>],
     hoist |-> [instr_idx |-> None, root |-> None, nodes |-> {}, node |-> None,
                pos |-> None, before |-> <<>>],
     report |-> [instr_idx |-> None, opt_count |-> None, instructions |-> <<>>]]

(***************************************************************************)
(* The dominator analyses on one function: compute_domtree, then           *)
(* compute_idom, then compute_df, as compute_dom_frontier and the tests    *)
(* of domtree.rs and dom_frontier.rs chain them.                           *)
(***************************************************************************)
TheFunc == input.functions[1]

TheCfg == ToSimpleCfg(TheFunc.entry_block, TheFunc.blocks)

InitDom ==
    /\ pc = "dom_start"
    /\ \E n \in 1..MaxCfgBlocks : \E f \in CfgFunctions(n) :
            input = [functions |-> <<f>>, entry_function |-> 0]
    /\ ssa = NoFunctions
    /\ params = <<>>
    /\ err = ""
    /\ analysis = NoAnalysis
    /\ cps = <<>>
    /\ locals = <<>>
    /\ phi_vars = <<>>
    /\ phi_res = NoPhiRes

DoComputeDomtree ==
    /\ pc = "dom_start"
    /\ analysis' = [analysis EXCEPT !.domtree = ComputeDomtree(TheFunc)]
    /\ pc' = "domtree"
    /\ UNCHANGED <<input, ssa, params, err, cps, locals, phi_vars, phi_res>>

DoComputeIdom ==
    /\ pc = "domtree"
    /\ analysis' = [analysis EXCEPT !.imm_doms = ComputeIdom(analysis.domtree)]
    /\ pc' = "idom"
    /\ UNCHANGED <<input, ssa, params, err, cps, locals, phi_vars, phi_res>>

DoComputeDf ==
    /\ pc = "idom"
    /\ LET dfs == ComputeDf(analysis.domtree, TheCfg)
       IN  /\ analysis' = [analysis EXCEPT !.dom_frontier = dfs]
           /\ pc' = IF dfs.diverge \/ dfs.panic THEN "abort" ELSE "df"
           /\ err' = IF dfs.diverge THEN "df: stack overflow"
                     ELSE IF dfs.panic THEN "Root not found" ELSE ""
    /\ UNCHANGED <<input, ssa, params, cps, locals, phi_vars, phi_res>>

NextDom == DoComputeDomtree \/ DoComputeIdom \/ DoComputeDf

SpecDom == InitDom /\ [][NextDom]_vars

(***************************************************************************)
(* SSA construction on one function: PhiForge::run on functions whose      *)
(* blocks assign the local x or not.                                       *)
(***************************************************************************)
VarX == Var("x", -8)

VarY == Var("y", -16)

VarP == Var("p", 16)

PhiBlockChoices(n, i) ==
    {body \o t : body \in {<<Nop>>, <<Move(Const(4), VarX)>>},
                 t \in Terminators(n, i, Const(1))}

PhiFunctions(n) ==
    {Function(0, 1, 0, Layout(bodies, 2)) :
        bodies \in {bs \in [1..n -> UNION {PhiBlockChoices(n, i) : i \in 0..(n - 1)}] :
                      \A i \in 1..n : bs[i] \in PhiBlockChoices(n, i - 1)}}

InitPhi ==
    /\ pc = "start"
    /\ \E n \in 1..MaxCfgBlocks : \E f \in PhiFunctions(n) :
            input = [functions |-> <<f>>, entry_function |-> 0]
    /\ ssa = NoFunctions
    /\ params = <<>>
    /\ err = ""
    /\ analysis = NoAnalysis
    /\ cps = <<>>
    /\ locals = <<>>
    /\ phi_vars = <<>>
    /\ phi_res = NoPhiRes

\* Cli::run, `let (mut ssa, params) = PhiForge::run(&funcs)`
DoPhiForge ==
    /\ pc = "start"
    /\ \E r \in {PhiForgeRun(input)} :
           /\ ssa' = [functions |-> r.functions, entry_function |-> input.entry_function]
           /\ params' = r.params
           /\ err' = r.panic
           /\ pc' = IF r.panic # "" THEN "abort" ELSE "ssa"
    /\ UNCHANGED <<input, analysis, cps, locals, phi_vars, phi_res>>

\* PhiForge::new and then infer_phi, as run_func calls them
DoInferPhi ==
    /\ pc = "start"
    /\ \E forge \in {NewForge(TheFunc)} :
           IF forge.dom_frontier.diverge \/ forge.dom_frontier.panic
           THEN /\ pc' = "abort"
                /\ err' = IF forge.dom_frontier.diverge THEN "df: stack overflow"
                          ELSE "Root not found"
                /\ analysis' = analysis
           ELSE /\ pc' = "phi_cells"
                /\ err' = ""
                /\ analysis' = [analysis EXCEPT
                                    !.cfg = forge.cfg,
                                    !.domtree = forge.domtree,
                                    !.imm_doms = forge.imm_doms,
                                    !.dom_frontier = forge.dom_frontier,
                                    !.phi_cells = InferPhi(TheFunc, forge.dom_frontier.val)]
    /\ UNCHANGED <<input, ssa, params, cps, locals, phi_vars, phi_res>>

NextPhi == DoPhiForge \/ DoInferPhi

SpecPhi == InitPhi /\ [][NextPhi]_vars

(***************************************************************************)
(* The pipeline of Cli::run on a program: PhiForge::run, then              *)
(* ConstProp::run when asked for, then SSATo3Addr::run.  The programs have *)
(* one or two functions of MaxBlocks blocks together; a function has the   *)
(* parameter p and the locals x and y.                                     *)
(***************************************************************************)
BodyIds == {"E", "A", "B", "K", "U"}

\* the body of a block that starts at instruction index `at`
BodyOf(id, at) ==
    IF id = "A" THEN <<Move(Const(4), VarX), Move(Const(4), VarY)>>
    ELSE IF id = "B" THEN <<Move(Const(4), VarX), Move(Const(5), VarY)>>
    ELSE IF id = "K" THEN <<Binary(VarP, Const(1)), Unary(Register(at)),
                            Move(Register(at + 1), VarX)>>
    ELSE IF id = "U" THEN <<Load(VarP), Store(VarX, VarY), Write(VarX), PushParam(VarY)>>
    ELSE <<Nop>>

\* the ways block i of n can end, with conditions on x and on p
ProgTerminators(n, i) ==
    (IF i + 1 < n
     THEN {<<>>} \cup {<<BranchIf(VarX, d)>> : d \in 0..(n - 1)}
                 \cup {<<BranchUnless(VarP, d)>> : d \in 0..(n - 1)}
     ELSE {})
        \cup {<<Ret>>} \cup {<<Branch(d)>> : d \in 0..(n - 1)}

\* a block choice is [id, t]: its body and its terminator
RECURSIVE ChoicesFrom(_, _)
ChoicesFrom(n, i) ==
    IF i = n THEN {<<>>}
    ELSE {<<c>> \o rest : c \in [id : BodyIds, t : ProgTerminators(n, i)],
                          rest \in ChoicesFrom(n, i + 1)}

BlockChoicesOf(n) == ChoicesFrom(n, 0)

RECURSIVE LayoutChoices(_, _)
LayoutChoices(choices, base) ==
    IF choices = <<>> THEN <<>>
    ELSE LET instrs == BodyOf(Head(choices).id, base) \o Head(choices).t
         IN  <<Block(base, instrs)>> \o LayoutChoices(Tail(choices), base + Len(instrs))

ProgFunction(choices, base) == Function(1, 2, 0, LayoutChoices(choices, base))

\* the first instruction index of an input program
ProgBase == 2

\* how MaxBlocks blocks or fewer are split over one or two functions
ProgSizes ==
    {<<n>> : n \in 1..MaxBlocks}
        \cup {s \in (1..MaxBlocks) \X (1..MaxBlocks) : s[1] + s[2] <= MaxBlocks}

Init ==
    /\ pc = "start"
    /\ \E s \in ProgSizes : \E c1 \in BlockChoicesOf(s[1]) :
          LET f1 == ProgFunction(c1, ProgBase)
          IN  IF Len(s) = 1
              THEN input = [functions |-> <<f1>>, entry_function |-> 0]
              ELSE \E c2 \in BlockChoicesOf(s[2]) :
                      input = [functions |->
                                  <<f1, ProgFunction(c2, ProgBase + CountInstructions(f1))>>,
                               entry_function |-> 0]
    /\ ssa = NoFunctions
    /\ params = <<>>
    /\ err = ""
    /\ analysis = NoAnalysis
    /\ cps = <<>>
    /\ locals = <<>>
    /\ phi_vars = <<>>
    /\ phi_res = NoPhiRes

\* Cli::run, `ConstProp::run(&mut ssa)` (Optimization::ConstProp, ::All)
DoConstProp ==
    /\ pc = "ssa"
    /\ \E r \in {ConstPropRun(ssa)} :
           /\ ssa' = [ssa EXCEPT !.functions = r.functions]
           /\ cps' = r.cps
           /\ err' = r.panic
           /\ pc' = IF r.panic # "" THEN "abort" ELSE "const_prop"
    /\ UNCHANGED <<input, params, analysis, locals, phi_vars, phi_res>>

\* Cli::run, `SSATo3Addr::run(&mut ssa, &params)` (Target::Recovered, ::Flatten)
DoSSATo3Addr ==
    /\ pc \in {"ssa", "const_prop"}
    /\ \E r \in {SSATo3AddrRun(ssa, params)} :
           /\ ssa' = [ssa EXCEPT !.functions = r.functions]
           /\ locals' = r.locals
           /\ err' = r.panic
           /\ pc' = IF r.panic # "" THEN "abort" ELSE "recovered"
    /\ UNCHANGED <<input, params, analysis, cps, phi_vars, phi_res>>

Next == DoPhiForge \/ DoConstProp \/ DoSSATo3Addr

Spec == Init /\ [][Next]_vars

(***************************************************************************)
(* check_vars_in_phi on the var sequences of a phi.                        *)
(***************************************************************************)
PhiVarChoices == {Const(4), Const(5), Subscribed("v", -1), Subscribed("v", 0)}

InitPhiVars ==
    /\ pc = "phi_start"
    /\ \E n \in 0..MaxPhiVars : phi_vars \in [1..n -> PhiVarChoices]
    /\ input = NoFunctions
    /\ ssa = NoFunctions
    /\ params = <<>>
    /\ err = ""
    /\ analysis = NoAnalysis
    /\ cps = <<>>
    /\ locals = <<>>
    /\ phi_res = NoPhiRes

DoCheckVarsInPhi ==
    /\ pc = "phi_start"
    /\ phi_res' = CheckVarsInPhi(phi_vars)
    /\ pc' = IF phi_res'.tag = "Panic" THEN "abort" ELSE "phi_done"
    /\ err' = IF phi_res'.tag = "Panic" THEN "check_vars_in_phi: unwrap on None" ELSE ""
    /\ UNCHANGED <<input, ssa, params, analysis, cps, locals, phi_vars>>

NextPhiVars == DoCheckVarsInPhi

SpecPhiVars == InitPhiVars /\ [][NextPhiVars]_vars

(***************************************************************************)
(* Dominance by paths, for the claims about the dominator analyses.        *)
(***************************************************************************)
\* the blocks reachable from `seen` along CFG edges that do not enter `avoid`
RECURSIVE ReachAvoiding(_, _, _)
ReachAvoiding(cfg, seen, avoid) ==
    LET next == seen \cup {s \in UNION {cfg.edges[b] : b \in seen} : s \notin avoid}
    IN  IF next = seen THEN seen ELSE ReachAvoiding(cfg, next, avoid)

Reachable(cfg) == ReachAvoiding(cfg, {cfg.entry}, {})

\* a lies on every CFG path from the entry to b
OnEveryPath(cfg, a, b) ==
    a = cfg.entry \/ a = b \/ b \notin ReachAvoiding(cfg, {cfg.entry}, {a})

PathDominators(cfg, b) == {a \in DOMAIN cfg.edges : OnEveryPath(cfg, a, b)}

\* the dominance frontier of b by its textbook definition
StandardDF(domtree, cfg, b) ==
    {y \in DOMAIN cfg.edges :
        /\ \E p \in GetPrevs(cfg, y) : Dominate(domtree, b, p)
        /\ ~(Dominate(domtree, b, y) /\ b # y)}

\* C2: compute_domtree maps every block reachable from the entry to exactly the
\* blocks that lie on every path from the entry to it; every block is among its
\* own dominators and the entry is dominated by itself alone.
C2_DomtreeIsPathDominance ==
    pc \in {"domtree", "idom", "df"} =>
        /\ \A b \in Reachable(TheCfg) : analysis.domtree[b] = PathDominators(TheCfg, b)
        /\ \A b \in BlockIdx(TheFunc) : b \in analysis.domtree[b]
        /\ analysis.domtree[TheFunc.entry_block] = {TheFunc.entry_block}

\* a join block some way down: it has a dominator besides the entry and itself,
\* and a reachable predecessor that does not dominate it
C2_Witness ==
    /\ pc = "domtree"
    /\ \E b \in Reachable(TheCfg) :
          /\ Cardinality(analysis.domtree[b]) >= 3
          /\ \E p \in GetPrevs(TheCfg, b) \cap Reachable(TheCfg) : p \notin analysis.domtree[b]

\* C3: for a reachable block b other than the entry, compute_idom yields the one
\* block i # b whose dominators are those of b without b; i strictly dominates b
\* and every other strict dominator of b dominates i.  For the root it yields None.
C3_IdomIsImmediateDominator ==
    pc \in {"idom", "df"} =>
        /\ \A b \in Reachable(TheCfg) \ {TheFunc.entry_block} :
              LET i == analysis.imm_doms[b]
                  cands == {j \in BlockIdx(TheFunc) \ {b} :
                              analysis.domtree[j] = analysis.domtree[b] \ {b}}
              IN  /\ i # None
                  /\ cands = {i}
                  /\ i # b /\ OnEveryPath(TheCfg, i, b)
                  /\ \A a \in BlockIdx(TheFunc) \ {b, i} :
                        OnEveryPath(TheCfg, a, b) => OnEveryPath(TheCfg, a, i)
        /\ analysis.imm_doms[RootOfDomtree(analysis.domtree)] = None

\* a reachable block whose immediate dominator is neither the entry nor its only
\* predecessor
C3_Witness ==
    /\ pc = "idom"
    /\ \E b \in Reachable(TheCfg) :
          /\ analysis.imm_doms[b] \notin {None, TheFunc.entry_block}
          /\ Cardinality(GetPrevs(TheCfg, b) \cap Reachable(TheCfg)) >= 2

\* C4: compute_df returns, for every block, exactly its dominance frontier.
C4_DfIsStandard ==
    pc \in {"df", "abort"} =>
        /\ pc = "df"
        /\ analysis.dom_frontier.done = BlockIdx(TheFunc)
        /\ \A b \in BlockIdx(TheFunc) :
              analysis.dom_frontier.val[b] = StandardDF(analysis.domtree, TheCfg, b)

\* what compute_df does when it returns
DfIsStandardWhenReturned ==
    pc = "df" =>
        /\ analysis.dom_frontier.done = BlockIdx(TheFunc)
        /\ \A b \in BlockIdx(TheFunc) :
              analysis.dom_frontier.val[b] = StandardDF(analysis.domtree, TheCfg, b)

\* compute_df overflows the stack exactly on two or more unreachable blocks
DfDivergesOnTwoUnreachable ==
    pc \in {"df", "abort"} =>
        (pc = "abort" <=> Cardinality(BlockIdx(TheFunc) \ Reachable(TheCfg)) >= 2)

(***************************************************************************)
(* Claims about SSA construction.                                          *)
(***************************************************************************)
\* the places of a function that define an SSA name: Moves and Phis
DefSites(func) ==
    {site \in UNION {{<<i, j>> : j \in 1..Len(func.blocks[i].instructions)} :
                        i \in 1..Len(func.blocks)} :
        LET instr == func.blocks[site[1]].instructions[site[2]]
        IN  instr.k \in {"Move", "Phi"} /\ instr.b.t = "Subscribed"}

DefAt(func, site) == func.blocks[site[1]].instructions[site[2]].b

\* no two definitions of function f carry the same (name, subscript)
UniqueDefinitions(f) ==
    LET func == ssa.functions[f]
        seeds == {Subscribed(params[f][k], 0) : k \in 1..Len(params[f])}
    IN  /\ \A s1, s2 \in DefSites(func) : s1 # s2 => DefAt(func, s1) # DefAt(func, s2)
        /\ \A s1 \in DefSites(func) : DefAt(func, s1) \notin seeds

\* C1: after PhiForge::run_func no two definitions (Move destinations, Phi
\* destinations, parameter seeds) carry the same (variable name, subscript)
C1_DefinitionsAreUnique ==
    pc = "ssa" => \A f \in 1..Len(ssa.functions) : UniqueDefinitions(f)

\* two sibling blocks of the dominator tree assign x$0 both
C1_SiblingsShareSubscript ==
    /\ pc = "ssa"
    /\ Len(input.functions[1].blocks) = 3
    /\ ssa.functions[1].blocks[2].instructions[1] = Move(Const(4), Subscribed("x", 0))
    /\ ssa.functions[1].blocks[3].instructions[1] = Move(Const(4), Subscribed("x", 0))

\* the subscript of var on top of the rename stack when the visit of block b
\* has renamed the block: its last definition on the way up the dominator tree
RECURSIVE TopAtEnd(_, _, _, _, _, _)
TopAtEnd(func, imm_doms, ps, b, var, fuel) ==
    LET instrs == func.blocks[b + 1].instructions
        here == {j \in 1..Len(instrs) :
                    /\ instrs[j].k \in {"Move", "Phi"}
                    /\ instrs[j].b.t = "Subscribed"
                    /\ instrs[j].b.n = var}
    IN  IF here # {} THEN instrs[CHOOSE j \in here : \A j2 \in here : j2 <= j].b.v
        ELSE IF imm_doms[b] = None \/ fuel = 0
        THEN IF var \in Range(ps) THEN 0 ELSE -1
        ELSE TopAtEnd(func, imm_doms, ps, imm_doms[b], var, fuel - 1)

\* the phis of function f list every CFG predecessor once, with the name on
\* top of the rename stack at its end
PhisListPredecessors(f) ==
    LET func == ssa.functions[f]
        orig == input.functions[f]
        forge == NewForge(orig)
        cells == InferPhi(orig, forge.dom_frontier.val)
    IN  \A b \in BlockIdx(func) : \A j \in 1..Len(Blk(func, b).instructions) :
            LET instr == Blk(func, b).instructions[j]
                var == SortVars(DOMAIN cells[b])[j]
            IN  instr.k = "Phi" =>
                  /\ Len(instr.vars) = Len(instr.blocks)
                  /\ Range(instr.blocks) = GetPrevs(forge.cfg, b)
                  /\ Cardinality(Range(instr.blocks)) = Len(instr.blocks)
                  /\ \A k \in 1..Len(instr.vars) :
                        instr.vars[k] =
                            Subscribed(var, TopAtEnd(func, forge.imm_doms, params[f],
                                                     instr.blocks[k], var, NBlocks(func)))

\* C5: after rename_phi every Phi of a block B has vars and blocks of equal
\* length, blocks holds each CFG predecessor of B exactly once and nothing
\* else, and vars[k] is the name on top of the rename stack at the end of
\* blocks[k]
C5_PhisListPredecessors ==
    pc = "ssa" => \A f \in 1..Len(ssa.functions) : PhisListPredecessors(f)


(***************************************************************************)
(* Claims about SSA destruction and constant propagation.                  *)
(***************************************************************************)
\* every instruction of the program, in function, block and instruction order
AllInstrs ==
    Concat([f \in 1..Len(ssa.functions) |->
              Concat([i \in 1..Len(ssa.functions[f].blocks) |->
                        ssa.functions[f].blocks[i].instructions])])

\* every block of the program, in function and block order
AllBlocks == Concat([f \in 1..Len(ssa.functions) |-> ssa.functions[f].blocks])

\* C6: after SSATo3Addr::run on a program of PhiForge::run, with or without
\* ConstProp::run in between, no block holds a Phi, and the run does not
\* abort on a Phi that was left
C6_NoPhiAfterSSATo3Addr ==
    /\ pc = "recovered" => \A k \in 1..Len(AllInstrs) : AllInstrs[k].k # "Phi"
    /\ ~(pc = "abort" /\ err = "Error phi node")

\* SSATo3Addr::run met a Phi that remove_phi_func left behind a Nop
C6_PhiLeftBehindNop == pc = "abort" /\ err = "Error phi node" /\ cps # <<>>

\* the operands an instruction reads or writes, Phi arguments and dest included
AllOperands(instr) == {instr.a, instr.b} \cup Range(instr.vars)

\* C7: after SSATo3Addr::run no operand of any instruction of any function
\* is a Subscribed operand
C7_NoSubscribedAfterSSATo3Addr ==
    pc = "recovered" =>
        \A k \in 1..Len(AllInstrs) : \A opd \in AllOperands(AllInstrs[k]) :
            opd.t # "Subscribed"

\* a recovered program holds a Move between two renamed variables: the Move
\* that phi removal put at the end of a predecessor
C7_Witness ==
    /\ pc = "recovered"
    /\ \E k \in 1..Len(AllInstrs) :
          /\ AllInstrs[k].k = "Move"
          /\ AllInstrs[k].a.t = "Var" /\ AllInstrs[k].a.v < 0
          /\ AllInstrs[k].b.t = "Var" /\ AllInstrs[k].b.v < 0

\* C8: after SSATo3Addr::run the first block of the first function starts at
\* index 3 and every next block, over all functions in list order, starts
\* where the block before it ends
C8_IndicesContiguous ==
    pc = "recovered" =>
        /\ AllBlocks # <<>> => AllBlocks[1].first_index = 3
        /\ \A k \in 1..(Len(AllBlocks) - 1) :
              AllBlocks[k + 1].first_index =
                  AllBlocks[k].first_index + Len(AllBlocks[k].instructions)

\* a recovered program of two functions, the first of them with two blocks
C8_Witness ==
    /\ pc = "recovered"
    /\ Len(ssa.functions) = 2
    /\ Len(ssa.functions[1].blocks) = 2
    /\ ssa.functions[2].blocks[1].first_index > 3

\* the operands the substitution pass looks up: not the dest of a Move or Phi
SubstOperands(instr) ==
    IF instr.k \in {"Binary", "Store"} THEN {instr.a, instr.b}
    ELSE IF instr.k \in {"Unary", "Load", "Write", "PushParam", "Move"} THEN {instr.a}
    ELSE IF instr.k = "Branch" /\ instr.m # "Unconditional" THEN {instr.a}
    ELSE IF instr.k = "Phi" THEN Range(instr.vars)
    ELSE {}

FuncInstrs(func) ==
    Concat([i \in 1..Len(func.blocks) |-> func.blocks[i].instructions])

\* C9: when ConstProp::run_func returns, no operand the pass looks up is a key
\* of const_elements, and one more pass reports no change
C9_ConstPropFixpoint ==
    pc = "const_prop" =>
        \A f \in 1..Len(ssa.functions) :
            /\ \A k \in 1..Len(FuncInstrs(ssa.functions[f])) :
                  SubstOperands(FuncInstrs(ssa.functions[f])[k])
                      \cap Keys(cps[f].const_elements) = {}
            /\ ~SubstFunction(ssa.functions[f], 1,
                              [count |-> cps[f].count,
                               const_elements |-> cps[f].const_elements],
                              FALSE).changed

\* ConstProp::run_func returned after more than two passes, with a constant
\* written where a block earlier in the list used the name
C9_Witness ==
    /\ pc = "const_prop"
    /\ cps[1].passes > 2
    /\ \E k \in 1..Len(AllInstrs) : AllInstrs[k] = Write(Const(4))

(***************************************************************************)
(* Claim about check_vars_in_phi.                                          *)
(***************************************************************************)
PhiConsts == {phi_vars[k].v : k \in {j \in 1..Len(phi_vars) : phi_vars[j].t = "Const"}}

\* C10: check_vars_in_phi returns Some(Const(c)) exactly when every element
\* is Const(c) for one c or a Subscribed with a negative subscript and some
\* element is Const(c); for every other sequence it returns None
C10_CheckVarsInPhi ==
    pc # "phi_start" =>
        IF /\ Cardinality(PhiConsts) = 1
           /\ \A k \in 1..Len(phi_vars) :
                 phi_vars[k].t = "Const" \/ (phi_vars[k].t = "Subscribed" /\ phi_vars[k].v < 0)
        THEN phi_res = [tag |-> "Some", opd |-> Const(CHOOSE c \in PhiConsts : TRUE)]
        ELSE phi_res.tag = "None"

\* check_vars_in_phi aborts on a sequence of undefined names
C10_PanicsWithoutConstant ==
    /\ pc = "abort"
    /\ phi_vars = <<Subscribed("v", -1)>>
    /\ phi_res.tag = "Panic"

(***************************************************************************)
(* Natural loops (analysis/natural_loop.rs).                               *)
(***************************************************************************)
\* NaturalLoop::from's inner visit: a depth-first walk over predecessors
RECURSIVE LoopVisit(_, _, _), LoopVisitPrevs(_, _, _)
LoopVisit(cfg, node, visited) ==
    IF node \in visited THEN visited
    ELSE LoopVisitPrevs(cfg, GetPrevs(cfg, node), visited \cup {node})

LoopVisitPrevs(cfg, todo, visited) ==
    IF todo = {} THEN visited
    ELSE LoopVisitPrevs(cfg, todo \ {Min(todo)}, LoopVisit(cfg, Min(todo), visited))

NaturalLoopFromBug(cfg, from, to) ==
    [root |-> to, nodes |-> LoopVisit(cfg, from, {}), back_edge |-> from]

NaturalLoopFrom(cfg, from, to) ==
    [root |-> to, nodes |-> LoopVisit(cfg, from, {to}), back_edge |-> from]

\* the two nested for loops of compute_loops, over from and then over to
RECURSIVE LoopsOfEdges(_, _, _)
LoopsOfEdges(cfg, from, tos) ==
    IF from \notin DOMAIN cfg.edges THEN <<>>
    ELSE IF tos = {} THEN
        IF from + 1 \in DOMAIN cfg.edges
        THEN LoopsOfEdges(cfg, from + 1, cfg.edges[from + 1]) ELSE <<>>
    ELSE (IF from > Min(tos) THEN <<NaturalLoopFrom(cfg, from, Min(tos))>> ELSE <<>>)
            \o LoopsOfEdges(cfg, from, tos \ {Min(tos)})

ComputeLoops(func) ==
    LET cfg == SimpleCfgFrom(func.entry_block, func.blocks)
    IN  LoopsOfEdges(cfg, 0, cfg.edges[0])

(***************************************************************************)
(* The control-flow graph and the natural loops of one function whose      *)
(* terminators may fall off the end of the block list or branch past it.   *)
(***************************************************************************)
AnyTerminators(n) ==
    {<<Nop>>, <<Ret>>} \cup {<<Branch(d)>> : d \in 0..n}
        \cup {<<BranchIf(Const(1), d)>> : d \in 0..n}

AnyFunctions(n) ==
    {Function(0, 0, 0, Layout(bodies, 2)) : bodies \in [1..n -> AnyTerminators(n)]}

InitCfg ==
    /\ pc = "cfg_start"
    /\ \E n \in 1..MaxCfgBlocks : \E f \in AnyFunctions(n) :
            input = [functions |-> <<f>>, entry_function |-> 0]
    /\ ssa = NoFunctions
    /\ params = <<>>
    /\ err = ""
    /\ analysis = NoAnalysis
    /\ cps = <<>>
    /\ locals = <<>>
    /\ phi_vars = <<>>
    /\ phi_res = NoPhiRes

DoSimpleCfgFrom ==
    /\ pc = "cfg_start"
    /\ analysis' = [analysis EXCEPT
                        !.cfg = SimpleCfgFrom(TheFunc.entry_block, TheFunc.blocks)]
    /\ pc' = "cfg"
    /\ UNCHANGED <<input, ssa, params, err, cps, locals, phi_vars, phi_res>>

DoComputeLoops ==
    /\ pc = "cfg"
    /\ analysis' = [analysis EXCEPT !.loops = ComputeLoops(TheFunc)]
    /\ pc' = "loops"
    /\ UNCHANGED <<input, ssa, params, err, cps, locals, phi_vars, phi_res>>

\* modify with `dest <= insert_idx` for its whole test
ModifyDestBug(block_idx, insert_idx, dest) ==
    IF dest <= insert_idx THEN dest ELSE dest + 1

\* insert_block::helper::modify
ModifyDest(block_idx, insert_idx, dest) ==
    IF dest < insert_idx \/ (dest = insert_idx /\ block_idx < insert_idx)
    THEN dest ELSE dest + 1

\* BlockInserter::modify_instr
ModifyInstr(instr, block_idx, insert_idx) ==
    IF instr.k = "Branch"
    THEN [instr EXCEPT !.d = ModifyDest(block_idx, insert_idx, instr.d)]
    ELSE IF instr.k = "Phi"
    THEN [instr EXCEPT !.blocks = Vec([k \in 1..Len(instr.blocks) |->
                                          IF instr.blocks[k] > insert_idx
                                          THEN instr.blocks[k] + 1 ELSE instr.blocks[k]])]
    ELSE instr

\* BlockInserter::modify_block
ModifyBlock(block, block_idx, insert_idx) ==
    Block(block.first_index,
          Vec([j \in 1..Len(block.instructions) |->
                  ModifyInstr(block.instructions[j], block_idx, insert_idx)]))

\* BlockInserter::run: modify_function; the function panning_function returns is dropped
BlockInserterRun(func, insert_idx) ==
    [func EXCEPT
        !.blocks = Concat([i \in 1..Len(func.blocks) |->
                             (IF insert_idx = i - 1 THEN <<Block(0, <<>>)>> ELSE <<>>)
                                \o <<ModifyBlock(func.blocks[i], i - 1, insert_idx)>>]),
        !.entry_block = IF func.entry_block > insert_idx THEN func.entry_block + 1
                        ELSE func.entry_block]

\* `for nl in &loops { BlockInserter::run(func, nl.root); }` of run_func
RECURSIVE InsertPreHeaders(_, _)
InsertPreHeaders(func, loops) ==
    IF loops = <<>> THEN func
    ELSE InsertPreHeaders(BlockInserterRun(func, Head(loops).root), Tail(loops))

\* LoopInVariant::run_func up to the second compute_loops
DoInsertBlocks ==
    /\ pc = "cfg_start"
    /\ \E func \in {InsertPreHeaders(TheFunc, ComputeLoops(TheFunc))} :
           /\ ssa' = [functions |-> <<func>>, entry_function |-> input.entry_function]
           /\ analysis' = [analysis EXCEPT !.loops = ComputeLoops(func)]
    /\ pc' = "inserted"
    /\ UNCHANGED <<input, params, err, cps, locals, phi_vars, phi_res>>

NextCfg == DoSimpleCfgFrom \/ DoComputeLoops \/ DoInsertBlocks

SpecCfg == InitCfg /\ [][NextCfg]_vars

\* C11: every successor recorded in the edges of SimpleCfg::from is a block
\* index of the block list: neither a fall-through from the last block nor a
\* branch to an index past the list produces an edge.
C11_EdgesInRange ==
    pc \in {"cfg", "loops"} =>
        \A b \in DOMAIN analysis.cfg.edges :
            analysis.cfg.edges[b] \subseteq BlockIdx(TheFunc)

\* a branch past the block list is recorded as an edge
C11_BranchPastTheEnd ==
    /\ pc = "cfg"
    /\ NBlocks(TheFunc) = 2
    /\ TheFunc.blocks[1].instructions = <<Branch(2)>>
    /\ TheFunc.blocks[2].instructions = <<Ret>>
    /\ 2 \in analysis.cfg.edges[0]

\* the blocks from which a block of seen is reached without passing through avoid
RECURSIVE ReachingAvoiding(_, _, _)
ReachingAvoiding(cfg, seen, avoid) ==
    LET next == seen \cup {p \in UNION {GetPrevs(cfg, b) : b \in seen} : p \notin avoid}
    IN  IF next = seen THEN seen ELSE ReachingAvoiding(cfg, next, avoid)

\* C12: compute_loops returns exactly one loop per CFG edge from->to with
\* from > to; its root is to, its back_edge is from, and its nodes are to
\* together with every block from which from is reached along CFG edges
\* without passing through to.
C12_LoopsAreBackEdgeLoops ==
    pc = "loops" =>
        LET cfg == analysis.cfg
            loops == analysis.loops
            back == {e \in (DOMAIN cfg.edges) \X (DOMAIN cfg.edges) :
                        e[2] \in cfg.edges[e[1]] /\ e[1] > e[2]}
        IN  /\ Len(loops) = Cardinality(back)
            /\ \A e \in back :
                    \E i \in 1..Len(loops) :
                        /\ loops[i].back_edge = e[1]
                        /\ loops[i].root = e[2]
            /\ \A i \in 1..Len(loops) :
                    /\ <<loops[i].back_edge, loops[i].root>> \in back
                    /\ loops[i].nodes = {loops[i].root}
                            \cup ReachingAvoiding(cfg, {loops[i].back_edge}, {loops[i].root})

\* two loops are found, one of them with a node besides its two ends
C12_Witness ==
    /\ pc = "loops"
    /\ Len(analysis.loops) = 2
    /\ \E i \in 1..2 : Cardinality(analysis.loops[i].nodes) = 3

\* C13: PhiForge::run followed by SSATo3Addr::run yields a program for every
\* input program, with the same number of functions and the same
\* entry_function (the program it yields is then run against the input one).
C13_RoundTripYieldsProgram ==
    /\ pc = "abort" => err \notin {"rename: unwrap on an empty stack",
                                   "rename: unwrap on a missing block",
                                   "df: stack overflow", "Root not found"}
    /\ (pc = "recovered" /\ cps = <<>>) =>
            /\ Len(ssa.functions) = Len(input.functions)
            /\ ssa.entry_function = input.entry_function

\* PhiForge::run aborts on a one-block function that reads x before any write
C13_AbortsOnReadBeforeWrite ==
    /\ pc = "abort"
    /\ err = "rename: unwrap on an empty stack"
    /\ Len(input.functions) = 1
    /\ NBlocks(input.functions[1]) = 1
    /\ input.functions[1].blocks[1].instructions = BodyOf("U", ProgBase) \o <<Ret>>

\* C16: rename_phi rewrites every variable operand of an ordinary instruction
\* to a Subscribed operand, and a use whose variable has an empty rename stack
\* becomes Subscribed(var, -1) while renaming goes on: it never aborts there.
C16_RenameNeverAborts ==
    /\ ~(pc = "abort" /\ err = "rename: unwrap on an empty stack")
    /\ pc = "ssa" =>
            \A k \in 1..Len(AllInstrs) :
                AllInstrs[k].k # "Phi" =>
                    \A opd \in AllOperands(AllInstrs[k]) : opd.t # "Var"

\* renaming aborts in a block that writes x and adds one to p, in a register,
\* before it reads y with no definition above
C16_AbortsOnEmptyStack ==
    /\ pc = "abort"
    /\ err = "rename: unwrap on an empty stack"
    /\ ssa.functions = <<>>
    /\ NBlocks(input.functions[1]) = 2
    /\ input.functions[1].blocks[1].instructions = BodyOf("K", ProgBase)
    /\ input.functions[1].blocks[2].instructions = BodyOf("U", ProgBase + 3) \o <<Ret>>

\* the iterated dominance frontier of the blocks of sites
RECURSIVE IteratedDF(_, _, _, _)
IteratedDF(domtree, cfg, sites, acc) ==
    LET next == UNION {StandardDF(domtree, cfg, b) : b \in sites \cup acc}
    IN  IF next = acc THEN acc ELSE IteratedDF(domtree, cfg, sites, next)

\* C14: infer_phi places a phi cell for variable v in block y exactly when y
\* is in the iterated dominance frontier of the blocks that hold a Move to v,
\* and the origins of the cell are the blocks b taken from the worklist (the
\* blocks with a Move to v and the blocks with a cell for v) with y in DF(b)
C14_PhiCellsAtIteratedDF ==
    pc = "phi_cells" =>
        \A v \in Range(VarOrder) :
            LET sites == {b \in BlockIdx(TheFunc) : v \in FindDefs(Blk(TheFunc, b))}
                idf == IteratedDF(analysis.domtree, analysis.cfg, sites, {})
            IN  \A y \in BlockIdx(TheFunc) :
                    /\ v \in DOMAIN analysis.phi_cells[y] <=> y \in idf
                    /\ y \in idf =>
                          analysis.phi_cells[y][v] =
                              {b \in sites \cup idf :
                                  y \in StandardDF(analysis.domtree, analysis.cfg, b)}

\* a cell with two origins in a block that is in the frontier of no block
\* with a Move to x: the worklist brought it in through another cell
C14_Witness ==
    /\ pc = "phi_cells"
    /\ \E y \in BlockIdx(TheFunc) :
          /\ "x" \in DOMAIN analysis.phi_cells[y]
          /\ Cardinality(analysis.phi_cells[y]["x"]) >= 2
          /\ \A b \in BlockIdx(TheFunc) :
                "x" \in FindDefs(Blk(TheFunc, b)) => y \notin analysis.dom_frontier.val[b]

\* C15 as stated: ConstProp::run_func returns after no more passes that report
\* a change than the function has SSA definitions (Move and Phi destinations)
C15_PassesWithinDefs ==
    [][(pc = "ssa" /\ pc' = "const_prop") =>
          \A f \in 1..Len(ssa.functions) :
              cps'[f].passes - 1 <= Cardinality(DefSites(ssa.functions[f]))]_vars

\* C15: ConstProp::run_func returns on every SSA function, after at most two
\* more passes that report a change than the function has SSA definitions
C15_PassesWithinDefsPlusTwo ==
    [][(pc = "ssa" /\ pc' = "const_prop") =>
          \A f \in 1..Len(ssa.functions) :
              cps'[f].passes - 1 <= Cardinality(DefSites(ssa.functions[f])) + 2]_vars

\* ConstProp::run_func returned after three passes that report a change on a
\* function of two definitions: the block that reads x and y is listed
\* before the block that writes them
C15_Witness ==
    /\ pc = "const_prop"
    /\ Len(input.functions) = 1
    /\ NBlocks(input.functions[1]) = 3
    /\ input.functions[1].blocks[1].instructions = <<Nop, Branch(2)>>
    /\ input.functions[1].blocks[2].instructions = BodyOf("U", ProgBase) \o <<Branch(1)>>
    /\ input.functions[1].blocks[3].instructions = BodyOf("A", ProgBase) \o <<Branch(1)>>
    /\ cps[1].passes = 4

\* C17: for every block that is unreachable from the entry compute_idom
\* yields None, also when one block alone is unreachable and some reachable
\* block is dominated by all other reachable blocks
C17_UnreachableHasNoIdom ==
    pc \in {"idom", "df"} =>
        \A b \in BlockIdx(TheFunc) \ Reachable(TheCfg) : analysis.imm_doms[b] = None

\* block 2 alone is unreachable, block 1 is dominated by the two reachable
\* blocks, and compute_idom gives block 1 as the immediate dominator of block 2
C17_LastOfChainIsIdom ==
    /\ pc = "idom"
    /\ NBlocks(TheFunc) = 3
    /\ Reachable(TheCfg) = {0, 1}
    /\ analysis.domtree[1] = {0, 1}
    /\ analysis.domtree[2] = {0, 1, 2}
    /\ analysis.imm_doms[2] = 1

\* C18: compute_df returns for every CFG and every dominator map of
\* compute_domtree, also with two or more blocks unreachable from the entry,
\* and its result has an entry for every block
C18_DfReturnsEveryBlock ==
    pc \in {"df", "abort"} =>
        /\ pc = "df"
        /\ ~analysis.dom_frontier.diverge
        /\ analysis.dom_frontier.done = BlockIdx(TheFunc)

\* df calls itself without end on blocks 1 and 2, both unreachable
C18_RecursionWithoutEnd ==
    /\ pc = "abort"
    /\ err = "df: stack overflow"
    /\ analysis.dom_frontier.diverge
    /\ NBlocks(TheFunc) = 3
    /\ Reachable(TheCfg) = {0}
    /\ analysis.domtree[1] = {0, 1, 2}
    /\ analysis.domtree[2] = {0, 1, 2}

(***************************************************************************)
(* place_phi_placeholder on functions whose blocks read registers of their *)
(* own block and the register of the first instruction of the function.    *)
(***************************************************************************)
PlaceBodies(at) ==
    {<<Nop>>, <<Move(Const(4), VarX)>>,
     <<Binary(VarP, Const(1)), Unary(Register(at)), Move(Register(at + 1), VarX)>>}

RECURSIVE PlaceBlocks(_, _, _)
PlaceBlocks(n, i, at) ==
    IF i = n THEN {<<>>}
    ELSE UNION {{<<Block(at, body \o t)>> \o rest :
                    rest \in PlaceBlocks(n, i + 1, at + Len(body \o t))} :
                body \in PlaceBodies(at), t \in Terminators(n, i, Register(ProgBase))}

InitPlace ==
    /\ pc = "place_start"
    /\ \E n \in 1..MaxBlocks : \E blocks \in PlaceBlocks(n, 0, ProgBase) :
            input = [functions |-> <<Function(1, 1, 0, blocks)>>, entry_function |-> 0]
    /\ ssa = NoFunctions
    /\ params = <<>>
    /\ err = ""
    /\ analysis = NoAnalysis
    /\ cps = <<>>
    /\ locals = <<>>
    /\ phi_vars = <<>>
    /\ phi_res = NoPhiRes

\* PhiForge::new, infer_phi and place_phi_placeholder, as run_func calls them
DoPlacePhiPlaceholder ==
    /\ pc = "place_start"
    /\ \E forge \in {NewForge(TheFunc)} :
           IF forge.dom_frontier.diverge \/ forge.dom_frontier.panic
           THEN /\ pc' = "abort"
                /\ err' = IF forge.dom_frontier.diverge THEN "df: stack overflow"
                          ELSE "Root not found"
                /\ UNCHANGED <<ssa, analysis>>
           ELSE \E cells \in {InferPhi(TheFunc, forge.dom_frontier.val)} :
                /\ pc' = "placed"
                /\ err' = ""
                /\ analysis' = [analysis EXCEPT !.phi_cells = cells]
                /\ ssa' = [functions |->
                              <<PlacePhiPlaceholder(TheFunc, TheFunc.blocks[1].first_index,
                                                    cells)>>,
                           entry_function |-> input.entry_function]
    /\ UNCHANGED <<input, params, cps, locals, phi_vars, phi_res>>

NextPlace == DoPlacePhiPlaceholder

SpecPlace == InitPlace /\ [][NextPlace]_vars

\* the places <<block, position>> of func whose instruction index is x
Locate(func, x) ==
    {site \in UNION {{<<i, j>> : j \in 1..Len(func.blocks[i].instructions)} :
                        i \in 1..Len(func.blocks)} :
        func.blocks[site[1]].first_index + site[2] - 1 = x}

\* the operand opd of the input, in block i, and the operand new that took its
\* place designate the same instruction: the one at <<c, j>> of the input sits
\* behind the placeholders of block c
SameInstruction(i, opd, new) ==
    opd.t = "Register" =>
        /\ new.t = "Register"
        /\ \A site \in Locate(TheFunc, opd.v) :
              new.v = ssa.functions[1].blocks[site[1]].first_index
                        + Cardinality(DOMAIN analysis.phi_cells[site[1] - 1])
                        + site[2] - 1

\* C19: after place_phi_placeholder every Register operand designates the
\* instruction it designated in the input, whether that instruction is in the
\* block of the operand or in another block
C19_RegistersKeepTheirInstruction ==
    pc = "placed" =>
        \A i \in 1..NBlocks(TheFunc) : \A j \in 1..Len(TheFunc.blocks[i].instructions) :
            LET k == Cardinality(DOMAIN analysis.phi_cells[i - 1])
                old == TheFunc.blocks[i].instructions[j]
                new == ssa.functions[1].blocks[i].instructions[j + k]
            IN  /\ SameInstruction(i, old.a, new.a)
                /\ SameInstruction(i, old.b, new.b)

\* block 1 got a placeholder and its branch reads the register of the Binary
\* that opens block 0, which has not moved: the operand is one too high
C19_CrossBlockRegisterShifted ==
    /\ pc = "placed"
    /\ NBlocks(TheFunc) = 3
    /\ Cardinality(DOMAIN analysis.phi_cells[0]) = 0
    /\ Cardinality(DOMAIN analysis.phi_cells[1]) = 1
    /\ ssa.functions[1].blocks[1].first_index = ProgBase
    /\ ssa.functions[1].blocks[1].instructions[1] = Binary(VarP, Const(1))
    /\ \E j \in 1..Len(ssa.functions[1].blocks[2].instructions) :
          LET instr == ssa.functions[1].blocks[2].instructions[j]
          IN  instr.k = "Branch" /\ instr.a = Register(ProgBase + 1)

\* C20: after the insertions of LoopInVariant::run_func, one BlockInserter::run
\* per loop, the block before the root of every recomputed loop is an inserted
\* empty block and is not among the nodes of the loop
C20_PreHeaderBeforeEveryRoot ==
    pc = "inserted" =>
        \A k \in 1..Len(analysis.loops) :
            LET nl == analysis.loops[k]
            IN  /\ nl.root >= 1
                /\ Blk(ssa.functions[1], nl.root - 1).instructions = <<>>
                /\ nl.root - 1 \notin nl.nodes

\* two loops that follow each other, 1 -> 0 and 3 -> 2: the second block was
\* inserted before block 1 of the input and not before block 2, and the block
\* before the root of the second loop is that block 1
C20_SecondLoopWithoutPreHeader ==
    /\ pc = "inserted"
    /\ NBlocks(TheFunc) = 4
    /\ TheFunc.blocks[1].instructions = <<Nop>>
    /\ TheFunc.blocks[2].instructions = <<BranchIf(Const(1), 0)>>
    /\ TheFunc.blocks[3].instructions = <<Nop>>
    /\ TheFunc.blocks[4].instructions = <<Branch(2)>>
    /\ Len(analysis.loops) = 2
    /\ \E k \in 1..2 :
          Blk(ssa.functions[1], analysis.loops[k].root - 1).instructions
              = <<BranchIf(Const(1), 1)>>

(***************************************************************************)
(* BlockInserter::run on one SSA function whose blocks open with a Phi     *)
(* that lists their CFG predecessors, for every insert index.              *)
(***************************************************************************)
RECURSIVE Ascending(_)
Ascending(S) == IF S = {} THEN <<>> ELSE <<Min(S)>> \o Ascending(S \ {Min(S)})

\* the Phi for x that block i opens with, when it has predecessors
PhiOfPrevs(cfg, i) ==
    LET prevs == Ascending(GetPrevs(cfg, i))
    IN  IF prevs = <<>> THEN <<>>
        ELSE <<Phi(Vec([k \in 1..Len(prevs) |-> Subscribed("x", prevs[k])]),
                   prevs, Subscribed("x", Cardinality(DOMAIN cfg.edges) + i))>>

\* f with its phis, entered at block entry
WithPhis(f, entry) ==
    LET cfg == SimpleCfgFrom(entry, f.blocks)
    IN  Function(0, 0, entry,
                 Layout(Vec([i \in 1..NBlocks(f) |->
                                PhiOfPrevs(cfg, i - 1) \o f.blocks[i].instructions]),
                        ProgBase))

InitIns ==
    /\ pc = "ins_start"
    /\ \E n \in 1..MaxCfgBlocks : \E f \in CfgFunctions(n) : \E entry \in 0..(n - 1) :
            input = [functions |-> <<WithPhis(f, entry)>>, entry_function |-> 0]
    /\ ssa = NoFunctions
    /\ params = <<>>
    /\ err = ""
    /\ analysis = NoAnalysis
    /\ cps = <<>>
    /\ locals = <<>>
    /\ phi_vars = <<>>
    /\ phi_res = NoPhiRes

\* BlockInserter::run(func, insert_idx)
DoBlockInserterRun ==
    /\ pc = "ins_start"
    /\ \E insert_idx \in BlockIdx(TheFunc) :
           /\ ssa' = [functions |-> <<BlockInserterRun(TheFunc, insert_idx)>>,
                      entry_function |-> input.entry_function]
           /\ analysis' = [analysis EXCEPT !.insert_idx = insert_idx]
    /\ pc' = "ins"
    /\ UNCHANGED <<input, params, err, cps, locals, phi_vars, phi_res>>

NextIns == DoBlockInserterRun

SpecIns == InitIns /\ [][NextIns]_vars

\* C23: after BlockInserter::run every block starts where the block before it
\* ends, so that the inserted empty block starts where the block after it does
C23_ContiguousAfterInsertion ==
    pc = "ins" =>
        \A k \in 1..(NBlocks(ssa.functions[1]) - 1) :
            ssa.functions[1].blocks[k + 1].first_index =
                ssa.functions[1].blocks[k].first_index
                    + Len(ssa.functions[1].blocks[k].instructions)

\* the block inserted before block 1 starts at 0, the block after it further on
C23_InsertedBlockStartsAtZero ==
    /\ pc = "ins"
    /\ analysis.insert_idx = 1
    /\ ssa.functions[1].blocks[2] = Block(0, <<>>)
    /\ ssa.functions[1].blocks[3].first_index > ProgBase

\* the Phis of every block of func list the CFG predecessors of the block,
\* each once and nothing else
PhisListPrevs(func) ==
    LET cfg == SimpleCfgFrom(func.entry_block, func.blocks)
    IN  \A y \in BlockIdx(func) : \A j \in 1..Len(Blk(func, y).instructions) :
            LET instr == Blk(func, y).instructions[j]
            IN  instr.k = "Phi" =>
                    /\ Range(instr.blocks) = GetPrevs(cfg, y)
                    /\ Len(instr.blocks) = Cardinality(GetPrevs(cfg, y))

\* C24: after BlockInserter::run on a function whose Phis list the CFG
\* predecessors of their blocks, every Phi lists the CFG predecessors of its
\* block in the new numbering
C24_PhisListPrevsAfterInsertion ==
    /\ pc = "ins_start" => PhisListPrevs(TheFunc)
    /\ pc = "ins" => PhisListPrevs(ssa.functions[1])

\* block 1 falls through to block 2 and the insertion is at 1: the Phi of the
\* former block 2, now block 3, still names block 1, the inserted block
C24_PhiNamesInsertedBlock ==
    /\ pc = "ins"
    /\ analysis.insert_idx = 1
    /\ NBlocks(TheFunc) = 3
    /\ TheFunc.blocks[3].instructions[1].blocks = <<1>>
    /\ ssa.functions[1].blocks[4].instructions[1].blocks = <<1>>
    /\ GetPrevs(SimpleCfgFrom(0, ssa.functions[1].blocks), 3) = {2}

\* C25: BlockInserter::run adds one to entry_block exactly when entry_block is
\* at least the insert index, so that entry_block names the block it named
\* before, also when the insertion is at the entry block
C25_EntryFollowsItsBlock ==
    pc = "ins" =>
        ssa.functions[1].entry_block =
            IF TheFunc.entry_block >= analysis.insert_idx
            THEN TheFunc.entry_block + 1 ELSE TheFunc.entry_block

\* an insertion at the entry block 1: entry_block stays 1, the inserted block
C25_EntryIsInsertedBlock ==
    /\ pc = "ins"
    /\ analysis.insert_idx = 1
    /\ TheFunc.entry_block = 1
    /\ ssa.functions[1].entry_block = 1
    /\ Blk(ssa.functions[1], 1).instructions = <<>>

\* the index after the insertion at `at` of the block that had index k
NewIndex(k, at) == IF k < at THEN k ELSE k + 1

\* C26: BlockInserter::run(func, at) keeps the destination d of a branch of
\* block b when d < at, or d = at and b < at, and makes it d + 1 otherwise:
\* every branch goes to the block it went to, but for the branches to block
\* at from the blocks before it, which go to the inserted block
C26_BranchesKeepTheirTarget ==
    pc = "ins" =>
        LET at == analysis.insert_idx
        IN  \A b \in BlockIdx(TheFunc) : \A j \in 1..Len(Blk(TheFunc, b).instructions) :
                LET old == Blk(TheFunc, b).instructions[j]
                    new == Blk(ssa.functions[1], NewIndex(b, at)).instructions[j]
                IN  old.k = "Branch" =>
                        /\ new = [old EXCEPT !.d = new.d]
                        /\ new.d = IF old.d < at \/ (old.d = at /\ b < at)
                                   THEN old.d ELSE old.d + 1
                        /\ IF old.d = at /\ b < at
                           THEN /\ Blk(ssa.functions[1], new.d).instructions = <<>>
                                /\ new.d + 1 = NewIndex(old.d, at)
                           ELSE new.d = NewIndex(old.d, at)

\* block 0 and block 2 both branch to block 1 and the insertion is at 1: the
\* branch of block 0 goes to the inserted block, the other to the block after it
C26_Witness ==
    /\ pc = "ins"
    /\ analysis.insert_idx = 1
    /\ NBlocks(TheFunc) = 3
    /\ \E j \in 1..Len(Blk(ssa.functions[1], 0).instructions) :
          /\ Blk(ssa.functions[1], 0).instructions[j].k = "Branch"
          /\ Blk(ssa.functions[1], 0).instructions[j].d = 1
    /\ \E j \in 1..Len(Blk(ssa.functions[1], 3).instructions) :
          /\ Blk(ssa.functions[1], 3).instructions[j].k = "Branch"
          /\ Blk(ssa.functions[1], 3).instructions[j].d = 2

(***************************************************************************)
(* Loop-invariant code motion (LoopInVariant::run_func).                   *)
(*                                                                         *)
(* analysis.checks tells whether the build checks integer overflow (a      *)
(* debug build panics on it, a release build wraps).  A register index     *)
(* below zero stands for the wrapped value of the same residue modulo      *)
(* 2^64: -1 is usize::MAX, and the sums of panning are exact modulo 2^64.  *)
(* analysis.hoist records the last hoist: the index of the hoisted         *)
(* instruction, its block and its position in it, the root and the nodes   *)
(* of its loop, and the function before the hoist.                         *)
(***************************************************************************)
\* helper::get_defs on one block
GetDefs(block) ==
    {Register(block.first_index + j - 1) : j \in 1..Len(block.instructions)}
        \cup {block.instructions[j].b :
                 j \in {i \in 1..Len(block.instructions) :
                          block.instructions[i].k \in {"Move", "Phi"}}}

\* `for n in nodes { helper::get_defs(&func.blocks[*n], &mut defs); }`
LoopDefs(func, nodes) == UNION {GetDefs(Blk(func, n)) : n \in nodes}

CheckInvariantInstrBug(instr, defs) ==
    instr.k \in {"Binary", "Unary", "Load", "Store", "Move"} /\ instr.a \notin defs

\* LoopInVariant::check_invariant_instr
CheckInvariantInstr(instr, defs) ==
    CASE instr.k \in {"Binary", "Store", "Move"} -> instr.a \notin defs /\ instr.b \notin defs
      [] instr.k \in {"Unary", "Load"} -> instr.a \notin defs
      [] OTHER -> FALSE

\* LoopInVariant::invariant_block: the first invariant instruction of the
\* block, its index, and the block with a Nop in its place
InvariantBlock(block, defs) ==
    LET found == {j \in 1..Len(block.instructions) :
                     CheckInvariantInstr(block.instructions[j], defs)}
    IN  IF found = {} THEN [some |-> FALSE]
        ELSE [some |-> TRUE,
              instr |-> block.instructions[Min(found)],
              instr_idx |-> block.first_index + Min(found) - 1,
              block |-> Block(block.first_index,
                              Vec([j \in 1..Len(block.instructions) |->
                                      IF j = Min(found) THEN Nop
                                      ELSE block.instructions[j]]))]

\* `for n in nodes { res = lv.invariant_block(..); if res.is_some() { break; } }`
RECURSIVE FindInvariant(_, _, _)
FindInvariant(func, nodes, defs) ==
    IF nodes = {} THEN [some |-> FALSE]
    ELSE IF InvariantBlock(Blk(func, Min(nodes)), defs).some
         THEN [some |-> TRUE, node |-> Min(nodes),
               res |-> InvariantBlock(Blk(func, Min(nodes)), defs)]
         ELSE FindInvariant(func, nodes \ {Min(nodes)}, defs)

\* `for nl in &loops`: the first loop that holds an invariant instruction
RECURSIVE FirstInvariant(_, _)
FirstInvariant(func, loops) ==
    IF loops = <<>> THEN [some |-> FALSE]
    ELSE IF FindInvariant(func, Head(loops).nodes, LoopDefs(func, Head(loops).nodes)).some
         THEN [some |-> TRUE, root |-> Head(loops).root, nodes |-> Head(loops).nodes,
               found |-> FindInvariant(func, Head(loops).nodes,
                                       LoopDefs(func, Head(loops).nodes))]
         ELSE FirstInvariant(func, Tail(loops))

\* Substitutable for SSAOpd
SubstitutableOpd(opd, origin, new) == IF opd = origin THEN new ELSE opd

\* Substitutable for SSAInstr: Load, Phi and the others are left alone
SubstitutableInstr(instr, origin, new) ==
    IF instr.k \in {"Binary", "Store", "Move"}
    THEN [instr EXCEPT !.a = SubstitutableOpd(instr.a, origin, new),
                       !.b = SubstitutableOpd(instr.b, origin, new)]
    ELSE IF instr.k \in {"Unary", "Write", "PushParam"}
            \/ (instr.k = "Branch" /\ instr.m \in {"If", "Unless"})
    THEN [instr EXCEPT !.a = SubstitutableOpd(instr.a, origin, new)]
    ELSE instr

\* Substitutable for SSABlock, on every block of the function
SubstitutableBlocks(func, origin, new) ==
    [func EXCEPT !.blocks =
        Vec([i \in 1..Len(func.blocks) |->
                Block(func.blocks[i].first_index,
                      Vec([j \in 1..Len(func.blocks[i].instructions) |->
                              SubstitutableInstr(func.blocks[i].instructions[j], origin, new)]))])]

\* LoopInVariant::compute_target_opd; -1 is the wrapped 0 - 1
ComputeTargetOpd(func, root) ==
    Register(Blk(func, root - 1).first_index + Len(Blk(func, root - 1).instructions) - 1)

\* LoopInVariant::push_invariant_instr
PushInvariantInstr(func, instr, root) ==
    PanningFunction(
        [func EXCEPT !.blocks =
            Vec([i \in 1..Len(func.blocks) |->
                    IF i = root
                    THEN Block(func.blocks[i].first_index,
                               Append(func.blocks[i].instructions, instr))
                    ELSE func.blocks[i]])],
        func.blocks[1].first_index).func

\* the register indices an instruction reads
RegistersOf(instr) ==
    {opd.v : opd \in {o \in {instr.a, instr.b} \cup Range(instr.vars) : o.t = "Register"}}

\* `x + index - i` of panning_function goes below zero in some block
PanningUnderflows(func, first_index) ==
    \E i \in 1..Len(func.blocks) : \E j \in 1..Len(func.blocks[i].instructions) :
        \E x \in RegistersOf(func.blocks[i].instructions[j]) :
            x + PanningLoop(func.blocks, first_index, <<>>).blocks[i].first_index
                < func.blocks[i].first_index

\* the function with block `node` replaced
WithBlock(func, node, block) ==
    [func EXCEPT !.blocks = Vec([i \in 1..Len(func.blocks) |->
                                    IF i = node + 1 THEN block ELSE func.blocks[i]])]

\* the body of the `for nl in &loops` of run_func from `lv.counter += 1` on
HoistInto(func, root, found) ==
    PushInvariantInstr(
        SubstitutableBlocks(WithBlock(func, found.node, found.res.block),
                    Register(found.res.instr_idx),
                    ComputeTargetOpd(func, root)),
        found.res.instr, root)

\* the hoist panics: blocks[root - 1] with root 0, or an overflow in a build
\* that checks it
HoistPanics(func, root, found, checks) ==
    \/ root = 0
    \/ /\ checks
       /\ \/ Blk(func, root - 1).first_index + Len(Blk(func, root - 1).instructions) = 0
          \/ PanningUnderflows(
                 [func EXCEPT !.blocks[root].instructions =
                     Append(func.blocks[root].instructions, found.res.instr)],
                 func.blocks[1].first_index)

\* the instruction sequences a block starts with, at instruction index at:
\* an invariant sum and a Write, a Load or a Store of it; a Read and its
\* negation; a Write of the first instruction of the function; a Move
HoistBodies(at) ==
    {<<>>,
     <<Binary(Const(1), Const(2)), Write(Register(at))>>,
     <<Binary(Const(1), Const(2)), Load(Register(at))>>,
     <<Read, Unary(Register(at))>>,
     <<Write(Register(ProgBase))>>,
     <<Move(Const(4), Subscribed("x", 1))>>}

\* the ways block i of n ends: the last block returns or branches, the others
\* fall through or branch on a condition
HoistTerminators(n, i) ==
    IF i + 1 < n THEN {<<Nop>>} \cup {<<BranchIf(Const(1), d)>> : d \in 0..(n - 1)}
    ELSE {<<Ret>>} \cup {<<Branch(d)>> : d \in 0..(n - 1)}

\* the most blocks of a function given to run_func; the functions of
\* MaxLoopBlocks blocks hold nothing but invariant sums and their uses
MaxLoopBlocks == 4

\* the most hoists of one run of run_func that are followed
MaxHoists == 12

RECURSIVE HoistBlocks(_, _, _)
HoistBlocks(n, i, at) ==
    IF i = n THEN {<<>>}
    ELSE UNION {{<<Block(at, body \o t)>> \o rest :
                    rest \in HoistBlocks(n, i + 1, at + Len(body \o t))} :
                body \in IF n < MaxLoopBlocks THEN HoistBodies(at)
                         ELSE {<<>>, <<Binary(Const(1), Const(2)), Write(Register(at))>>},
                t \in HoistTerminators(n, i)}

InitLoop ==
    /\ pc = "li_start"
    /\ \E n \in 1..MaxLoopBlocks : \E blocks \in HoistBlocks(n, 0, ProgBase) :
            input = [functions |-> <<Function(0, 0, 0, blocks)>>, entry_function |-> 0]
    /\ ssa = NoFunctions
    /\ params = <<>>
    /\ err = ""
    /\ \E checks \in BOOLEAN : analysis = [NoAnalysis EXCEPT !.checks = checks]
    /\ cps = <<>>
    /\ locals = <<>>
    /\ phi_vars = <<>>
    /\ phi_res = NoPhiRes

\* run_func up to the while loop
DoRunFuncStart ==
    /\ pc = "li_start"
    /\ \E func \in {InsertPreHeaders(TheFunc, ComputeLoops(TheFunc))} :
           /\ ssa' = [functions |-> <<func>>, entry_function |-> input.entry_function]
           /\ analysis' = [analysis EXCEPT !.loops = ComputeLoops(func)]
    /\ pc' = "hoisting"
    /\ UNCHANGED <<input, params, err, cps, locals, phi_vars, phi_res>>

\* one round of the while loop of run_func that finds an invariant instruction
DoHoist ==
    /\ pc = "hoisting"
    /\ analysis.lv.counter < MaxHoists
    /\ \E r \in {FirstInvariant(ssa.functions[1], analysis.loops)} :
           /\ r.some
           /\ IF HoistPanics(ssa.functions[1], r.root, r.found, analysis.checks)
              THEN /\ pc' = "abort"
                   /\ err' = "attempt to subtract with overflow"
                   /\ UNCHANGED <<ssa, analysis>>
              ELSE /\ pc' = "hoisting"
                   /\ err' = ""
                   /\ ssa' = [functions |-> <<HoistInto(ssa.functions[1], r.root, r.found)>>,
                              entry_function |-> input.entry_function]
                   /\ analysis' =
                         [analysis EXCEPT
                             !.lv = [counter |-> analysis.lv.counter + 1,
                                     opt_instr |-> Append(analysis.lv.opt_instr,
                                                          <<r.found.res.instr,
                                                            r.found.res.instr_idx>>)],
                             !.hoist = [instr_idx |-> r.found.res.instr_idx,
                                        root |-> r.root,
                                        nodes |-> r.nodes,
                                        node |-> r.found.node,
                                        pos |-> r.found.res.instr_idx + 1
                                                  - Blk(ssa.functions[1],
                                                        r.found.node).first_index,
                                        before |-> ssa.functions[1]]]
    /\ UNCHANGED <<input, params, cps, locals, phi_vars, phi_res>>

\* the round of the while loop that finds nothing, and the report
DoRunFuncReturn ==
    /\ pc = "hoisting"
    /\ ~FirstInvariant(ssa.functions[1], analysis.loops).some
    /\ pc' = "returned"
    /\ analysis' = [analysis EXCEPT
                       !.report = [instr_idx |-> ssa.functions[1].blocks[1].first_index,
                                   opt_count |-> analysis.lv.counter,
                                   instructions |-> analysis.lv.opt_instr]]
    /\ UNCHANGED <<input, ssa, params, err, cps, locals, phi_vars, phi_res>>

NextLoop == DoRunFuncStart \/ DoHoist \/ DoRunFuncReturn

SpecLoop == InitLoop /\ [][NextLoop]_vars

\* the edges from->to of the blocks reachable from the entry whose head
\* dominates their tail
DominatingEdges(cfg) ==
    {e \in Reachable(cfg) \X Reachable(cfg) :
        e[2] \in cfg.edges[e[1]] /\ OnEveryPath(cfg, e[2], e[1])}

\* the CFG without the edges whose head dominates their tail
ForwardCfg(cfg) ==
    [entry |-> cfg.entry,
     edges |-> MapOf([b \in DOMAIN cfg.edges |->
                        {t \in cfg.edges[b] : <<b, t>> \notin DominatingEdges(cfg)}])]

\* a CFG is reducible when its reachable part has no cycle but through an
\* edge whose head dominates its tail
Reducible(cfg) ==
    \A b \in Reachable(cfg) :
        b \notin ReachAvoiding(ForwardCfg(cfg), ForwardCfg(cfg).edges[b], {})

\* the index of the instruction at position j of block i
IndexAt(func, i, j) == Blk(func, i).first_index + j - 1

\* the instructions of func as pairs <<block, position>>
Slots(func) ==
    UNION {{<<i, j>> : j \in 1..Len(Blk(func, i).instructions)} : i \in BlockIdx(func)}

\* a hoist has just been made
Hoisted == pc = "hoisting" /\ analysis.lv.counter > 0

\* the operands an instruction reads or writes, by their place: its two
\* operands and then the arguments of a Phi
OperandAt(instr, place) ==
    IF place = 1 THEN instr.a
    ELSE IF place = 2 THEN (IF instr.k = "Phi" THEN NOpd ELSE instr.b)
    ELSE IF place - 2 \in 1..Len(instr.vars) THEN instr.vars[place - 2] ELSE NOpd

Places == 1..(MaxPhiVars + 2)

\* the slot of the copy that the last hoist appended to the pre-header
CopySlot == <<analysis.hoist.root - 1,
              Len(Blk(ssa.functions[1], analysis.hoist.root - 1).instructions)>>

\* C21: after each hoist every operand that designated the hoisted
\* instruction, in an instruction of any kind, designates the copy appended to
\* the pre-header, and no operand designates the Nop left in its place
C21_UsersDesignateTheCopy ==
    Hoisted =>
        \A s \in Slots(analysis.hoist.before) : \A place \in Places :
            LET old == OperandAt(Blk(analysis.hoist.before, s[1]).instructions[s[2]], place)
                new == OperandAt(Blk(ssa.functions[1], s[1]).instructions[s[2]], place)
            IN  /\ old = Register(analysis.hoist.instr_idx)
                     => new = Register(IndexAt(ssa.functions[1], CopySlot[1], CopySlot[2]))
                /\ new # Register(IndexAt(ssa.functions[1], analysis.hoist.node,
                                          analysis.hoist.pos))

\* the sum of a block was hoisted and the Load after it still reads the
\* register of the Nop left in its place
C21_LoadDesignatesTheNop ==
    /\ Hoisted
    /\ analysis.lv.counter = 1
    /\ Blk(ssa.functions[1], analysis.hoist.node).instructions[analysis.hoist.pos] = Nop
    /\ Blk(ssa.functions[1], analysis.hoist.node).instructions[analysis.hoist.pos + 1]
          = Load(Register(IndexAt(ssa.functions[1], analysis.hoist.node,
                                  analysis.hoist.pos)))

\* the slots of func whose index is x
SlotsOf(func, x) == {s \in Slots(func) : IndexAt(func, s[1], s[2]) = x}

\* an operand of the function before the last hoist and the operand it has
\* become designate the same instruction or name
SameDesignation(old, new) ==
    IF old.t = "Register"
    THEN \A s \in SlotsOf(analysis.hoist.before, old.v) :
            new = Register(IndexAt(ssa.functions[1], s[1], s[2]))
    ELSE new = old

\* C22: a hoist changes nothing but the place of the hoisted instruction: the
\* copy has the operands of the original, and every register operand of the
\* other instructions that did not designate the hoisted instruction
\* designates the instruction it designated
C22_HoistKeepsDesignations ==
    Hoisted =>
        /\ \A place \in Places :
              SameDesignation(
                  OperandAt(Blk(analysis.hoist.before, analysis.hoist.node)
                                .instructions[analysis.hoist.pos], place),
                  OperandAt(Blk(ssa.functions[1], CopySlot[1]).instructions[CopySlot[2]],
                            place))
        /\ \A s \in Slots(analysis.hoist.before) \ {<<analysis.hoist.node, analysis.hoist.pos>>} :
              \A place \in Places :
                 LET old == OperandAt(Blk(analysis.hoist.before, s[1]).instructions[s[2]], place)
                 IN  old # Register(analysis.hoist.instr_idx) =>
                        SameDesignation(old,
                            OperandAt(Blk(ssa.functions[1], s[1]).instructions[s[2]], place))

\* a hoist was made, and a Write of the first
\* instruction of the function, which was not hoisted, reads another register
C22_WriteOfFirstInstructionShifted ==
    /\ Hoisted
    /\ analysis.hoist.instr_idx # ProgBase
    /\ \E s \in Slots(analysis.hoist.before) :
          /\ Blk(analysis.hoist.before, s[1]).instructions[s[2]] = Write(Register(ProgBase))
          /\ SlotsOf(analysis.hoist.before, ProgBase) # {}
          /\ ~SameDesignation(Register(ProgBase),
                              Blk(ssa.functions[1], s[1]).instructions[s[2]].a)

\* the operands of the definitions of the blocks of a loop: the register of
\* every instruction and the destination of every Move and Phi
DefsOfLoop(func, nodes) ==
    {Register(IndexAt(func, s[1], s[2])) : s \in {t \in Slots(func) : t[1] \in nodes}}
        \cup {Blk(func, s[1]).instructions[s[2]].b :
                 s \in {t \in Slots(func) :
                          t[1] \in nodes
                          /\ Blk(func, t[1]).instructions[t[2]].k \in {"Move", "Phi"}}}

\* a Binary, Unary, Load, Store or Move none of whose operands is in defs
IsInvariant(instr, defs) ==
    /\ instr.k \in {"Binary", "Unary", "Load", "Store", "Move"}
    /\ \A opd \in {instr.a, instr.b} \ {NOpd} : opd \notin defs

\* C27: run_func hoists an instruction exactly when it is a Binary, Unary,
\* Load, Store or Move of a block of a loop none of whose operands is among
\* the definitions of the loop: every hoisted instruction is one, and when
\* run_func returns no loop holds one
C27_HoistsExactlyTheInvariants ==
    /\ Hoisted =>
          IsInvariant(Blk(analysis.hoist.before, analysis.hoist.node)
                          .instructions[analysis.hoist.pos],
                      DefsOfLoop(analysis.hoist.before, analysis.hoist.nodes))
    /\ pc = "returned" =>
          \A k \in 1..Len(analysis.loops) :
             \A s \in {t \in Slots(ssa.functions[1]) : t[1] \in analysis.loops[k].nodes} :
                ~IsInvariant(Blk(ssa.functions[1], s[1]).instructions[s[2]],
                             DefsOfLoop(ssa.functions[1], analysis.loops[k].nodes))

\* run_func has returned after a hoist and a block of a loop still holds the
\* Move of a constant and the negation of what the Read before it read
C27_Witness ==
    /\ pc = "returned"
    /\ analysis.report.opt_count > 0
    /\ \E s \in Slots(ssa.functions[1]) :
          /\ s[1] \in analysis.loops[1].nodes
          /\ Blk(ssa.functions[1], s[1]).instructions[s[2]].k = "Move"
    /\ \E s \in Slots(ssa.functions[1]) :
          /\ s[1] \in analysis.loops[1].nodes
          /\ Blk(ssa.functions[1], s[1]).instructions[s[2]].k = "Unary"

\* the instructions of func of the kinds that run_func hoists
Hoistable(func) ==
    {s \in Slots(func) :
        Blk(func, s[1]).instructions[s[2]].k \in {"Binary", "Unary", "Load", "Store", "Move"}}

\* C28: run_func returns on every function: it does not panic, and it does
\* not hoist for ever, for which it would have to hoist one instruction out
\* of one block twice; and the opt_count of its report is the number of the
\* hoists it made
C28_RunFuncReturns ==
    /\ pc # "abort"
    /\ pc \in {"hoisting", "returned"} =>
          analysis.lv.counter <= Cardinality(Hoistable(TheFunc)) * NBlocks(ssa.functions[1])
    /\ pc = "returned" =>
          /\ analysis.report.opt_count = Len(analysis.report.instructions)
          /\ analysis.report.opt_count = analysis.lv.counter

\* the one sum of a function has been hoisted more often than the function
\* has blocks, and is about to be hoisted again
C28_HoistedAgainAndAgain ==
    /\ pc = "hoisting"
    /\ analysis.lv.counter = MaxHoists
    /\ MaxHoists > NBlocks(ssa.functions[1])
    /\ Cardinality(Hoistable(TheFunc)) = 1
    /\ FirstInvariant(ssa.functions[1], analysis.loops).some

(***************************************************************************)
(* rename_params on one function of two blocks without Phis, whose         *)
(* operands are versions of the names p, q and x, with p, q, both or none  *)
(* of them parameters.                                                     *)
(***************************************************************************)
RenameOperands ==
    {Subscribed("p", 0), Subscribed("p", 1), Subscribed("q", 0),
     Subscribed("x", 1), Subscribed("x", 2), Const(1)}

RenameParamChoices == {<<>>, <<"p">>, <<"p", "q">>, <<"q", "p">>}

RenameFunctions ==
    {Function(0, 0, 0, Layout(<<<<i1, i2>>, <<i3, Ret>>>>, ProgBase)) :
        i1 \in {Binary(a, b) : a \in RenameOperands, b \in RenameOperands}
                 \cup {Move(a, b) : a \in RenameOperands, b \in RenameOperands},
        i2 \in {Write(a) : a \in RenameOperands}
                 \cup {BranchIf(a, 1) : a \in RenameOperands},
        i3 \in {Unary(a) : a \in RenameOperands}
                 \cup {Store(a, Const(1)) : a \in RenameOperands}
                 \cup {PushParam(a) : a \in RenameOperands}}

InitRename ==
    /\ pc = "rename_start"
    /\ \E f \in RenameFunctions : input = [functions |-> <<f>>, entry_function |-> 0]
    /\ \E ps \in RenameParamChoices : params = <<ps>>
    /\ ssa = NoFunctions
    /\ err = ""
    /\ analysis = NoAnalysis
    /\ cps = <<>>
    /\ locals = <<>>
    /\ phi_vars = <<>>
    /\ phi_res = NoPhiRes

\* SSATo3Addr::rename_params
DoRenameParams ==
    /\ pc = "rename_start"
    /\ \E r \in {RenameParams(TheFunc, params[1])} :
           /\ ssa' = [functions |-> <<r.func>>, entry_function |-> input.entry_function]
           /\ locals' = <<r.locals>>
           /\ err' = r.panic
           /\ pc' = IF r.panic # "" THEN "abort" ELSE "renamed"
    /\ UNCHANGED <<input, params, analysis, cps, phi_vars, phi_res>>

NextRename == DoRenameParams

SpecRename == InitRename /\ [][NextRename]_vars

\* the operands of func in the order rename_params meets them
RECURSIVE OperandsInOrder(_, _)
OperandsInOrder(func, slots) ==
    IF slots = {} THEN <<>>
    ELSE LET s == CHOOSE t \in slots :
                     \A u \in slots : t[1] < u[1] \/ (t[1] = u[1] /\ t[2] <= u[2])
             instr == Blk(func, s[1]).instructions[s[2]]
         IN  <<instr.a, instr.b>> \o OperandsInOrder(func, slots \ {s})

\* the SSA names of func that are not version 0 of a parameter
LocalNames(func, ps) ==
    {opd \in Range(OperandsInOrder(func, Slots(func))) :
        opd.t = "Subscribed" /\ ~(opd.n \in Range(ps) /\ opd.v = 0)}

\* where opd occurs first in func
FirstOccurrence(func, opd) ==
    Min({k \in 1..Len(OperandsInOrder(func, Slots(func))) :
            OperandsInOrder(func, Slots(func))[k] = opd})

\* how many local names occur in func before opd does
OccurrenceRank(func, ps, opd) ==
    Cardinality({o \in LocalNames(func, ps) :
                    FirstOccurrence(func, o) < FirstOccurrence(func, opd)})

\* C29: rename_params rewrites version 0 of the parameter of index k to a Var
\* of offset 8 * (k + 2) and every other SSA name to a Var of offset
\* -8 * (j + 1), j its rank in the order of the first occurrences, so that
\* equal names get equal offsets and different names different ones; other
\* operands are kept, and local_var_count is the number of the local names
C29_OffsetsOfParamsAndLocals ==
    pc = "renamed" =>
        /\ \A s \in Slots(TheFunc) : \A place \in {1, 2} :
              LET old == OperandAt(Blk(TheFunc, s[1]).instructions[s[2]], place)
                  new == OperandAt(Blk(ssa.functions[1], s[1]).instructions[s[2]], place)
              IN  IF old.t # "Subscribed" THEN new = old
                  ELSE IF old.n \in Range(params[1]) /\ old.v = 0
                  THEN \E k \in 1..Len(params[1]) :
                          params[1][k] = old.n /\ new = Var(old.n, 8 * ((k - 1) + 2))
                  ELSE /\ new.t = "Var"
                       /\ new.v = 0 - 8 * (OccurrenceRank(TheFunc, params[1], old) + 1)
        /\ ssa.functions[1].local_var_count = Cardinality(LocalNames(TheFunc, params[1]))

\* q is the parameter of index 0 and p of index 1; x_2 is met before x_1 and
\* again after it, and both times becomes the Var of offset -8
C29_Witness ==
    /\ pc = "renamed"
    /\ params = << <<"q", "p">> >>
    /\ TheFunc.blocks[1].instructions[1] = Binary(Subscribed("x", 2), Subscribed("p", 0))
    /\ TheFunc.blocks[1].instructions[2] = Write(Subscribed("x", 1))
    /\ TheFunc.blocks[2].instructions[1] = Unary(Subscribed("x", 2))
    /\ ssa.functions[1].blocks[1].instructions[1].b = Var("p", 24)
    /\ ssa.functions[1].blocks[1].instructions[1].a.v = -8
    /\ ssa.functions[1].blocks[1].instructions[2].a.v = -16
    /\ ssa.functions[1].blocks[2].instructions[1].a.v = -8
    /\ ssa.functions[1].local_var_count = 2

\* every successor of every block of the CFG is a block of the CFG
EdgesInRange(cfg) == \A b \in DOMAIN cfg.edges : cfg.edges[b] \subseteq DOMAIN cfg.edges

\* C30: on a reducible CFG compute_loops returns a loop for the edge
\* from->to of a reachable block exactly when to dominates from, an edge from
\* a block to itself included, and the root of every loop dominates its nodes
C30_BackEdgesAreDominatingEdges ==
    (pc = "loops" /\ EdgesInRange(analysis.cfg) /\ Reducible(analysis.cfg)) =>
        /\ \A from \in Reachable(analysis.cfg) : \A to \in analysis.cfg.edges[from] :
              (\E k \in 1..Len(analysis.loops) :
                  analysis.loops[k].root = to /\ analysis.loops[k].back_edge = from)
                 <=> OnEveryPath(analysis.cfg, to, from)
        /\ \A k \in 1..Len(analysis.loops) :
              analysis.loops[k].back_edge \in Reachable(analysis.cfg) =>
                 \A n \in analysis.loops[k].nodes \cap Reachable(analysis.cfg) :
                    OnEveryPath(analysis.cfg, analysis.loops[k].root, n)

\* the only block of the function branches to itself and no loop is found
C30_SelfEdgeWithoutLoop ==
    /\ pc = "loops"
    /\ NBlocks(TheFunc) = 1
    /\ analysis.cfg.edges[0] = {0}
    /\ Reducible(analysis.cfg)
    /\ analysis.loops = <<>>

====
